---- MODULE Spec2Model ----
(***************************************************************************)
(* Driving-telemetry and geofence-violation tracker of the Droptimize      *)
(* driver app (src/provider/OverspeedProvider.js, first provider in the    *)
(* file, lines 1-1210) together with the durable shift store               *)
(* (src/services/storageService.js) and the shift buttons of the Home      *)
(* screen (src/app/Home.jsx).                                              *)
(*                                                                         *)
(* Units.  Time is in milliseconds (Date.now()).  A coordinate is a point  *)
(* of one straight road, given as an integer number of metres from its     *)
(* origin, so that the great-circle distance of two fixes is the absolute  *)
(* difference of their coordinates; -1 stands for null.  A device speed is *)
(* an integer number of SpeedScale-ths of a metre per second; a value <= 0 *)
(* stands for a missing, non-finite or non-positive coords.speed.          *)
(* Speeds in km/h are integers, as Math.round makes them.                  *)
(***************************************************************************)
EXTENDS Integers, Sequences, FiniteSets, TLC

\* ------------------------------------------------------------------------
\* Program constants
\* ------------------------------------------------------------------------
DEFAULT_SPEED_LIMIT == 60
DEFAULT_ZONE_RADIUS == 15
VIOLATION_COOLDOWN_MS == 60000
MIN_SPEED_FOR_VIOLATION == 5
OVERSPEED_GRACE_PERIOD_MS == 10000
\* SPEED_CORRECTION_FACTOR = 1.12, as a fraction of CorrectionDen
SPEED_CORRECTION_FACTOR == 112
CorrectionDen == 100
\* candidate speeds of this value or more are rejected by calculateSpeedKmh
MaxPlausibleKmh == 200
\* speeds below this value are snapped to 0 by calculateSpeedKmh
MinReportedKmh == 2
\* the distance band of the metrics accumulator: 0.001 km and 0.5 km, in metres
MinDeltaM == 1
MaxDeltaM == 500
\* device speeds are given in tenths of a metre per second
SpeedScale == 10

Null == -1
NoZoneId == "null"

\* ------------------------------------------------------------------------
\* Bounds of the model
\* ------------------------------------------------------------------------
\* Date.now() when the provider is constructed
StartTime == 100000
\* the detector specification runs for this long
DetHorizon == 75000
\* the metrics specification runs for this long
ShiftHorizon == 20000
\* the estimator specification runs for this long
SpeedHorizon == 12000
\* the zone specification runs for this long
ZoneHorizon == 10000
\* the scenario specification runs for this long
ScenarioHorizon == 15000
\* the announcer specification runs for this long
AnnouncerHorizon == 12000
\* the background specification runs for this long
BackgroundHorizon == 12000
\* the teardown specification runs for this long
TeardownHorizon == 6000
\* the write-failure specification runs for this long
FailureHorizon == 75000
\* at most this many startLocationWatch invocations await at a time
MaxPending == 2
\* the order specification runs for this long
OrderHorizon == 12000
\* callbacks awaiting their remote write at one time
MaxPendingFixes == 2
\* the continuous-infraction specification runs for this long
LiveHorizon == 160000
\* a cooldown and the longest time between two fixes
LiveBudget == 80000
\* emissions that fit into LiveHorizon - LiveBudget
MaxLiveEmissions == 2
\* the drivers specification runs for this long
DriversHorizon == 10000
\* the store specification runs for this long
StoreHorizon == 15000
\* the background task of the store specification starts no run once the
\* driver's remote record holds this many entries
MaxRecords == 2
\* the teardown specification completes no start once this many position
\* subscriptions are live
MaxSubscriptions == 2
\* at most this many branch loads of the listener are in flight at a time
MaxLoads == 3

\* ------------------------------------------------------------------------
\* Pure helpers
\* ------------------------------------------------------------------------
Max(a, b) == IF a >= b THEN a ELSE b

Abs(a) == IF a >= 0 THEN a ELSE 0 - a

\* Math.round(n / d) for n >= 0, d > 0: halves round up
RoundDiv(n, d) == (2 * n + d) \div (2 * d)

RECURSIVE SumSeq(_)
SumSeq(s) == IF s = <<>> THEN 0 ELSE Head(s) + SumSeq(Tail(s))

\* haversine(a, b) and calculateDistanceInKm(a, b) * 1000, in metres
calculateDistanceMeters(a, b) == Abs(a - b)

ZONE_DEFAULT_SPEEDS(category) ==
    CASE category = "Crosswalk" -> 15
      [] category = "School" -> 20
      [] category = "Schools" -> 20
      [] category = "Church" -> 30
      [] category = "Curve" -> 40
      [] category = "Slippery" -> 40
      [] category = "Slowdown" -> 40
      [] category = "Default" -> DEFAULT_SPEED_LIMIT
      [] OTHER -> 0

\* Mutant: the category table without the global default
CategoryLimit_NoFallback(category) == ZONE_DEFAULT_SPEEDS(category)

\* ZONE_DEFAULT_SPEEDS[category] || DEFAULT_SPEED_LIMIT
CategoryLimit(category) ==
    IF ZONE_DEFAULT_SPEEDS(category) > 0 THEN ZONE_DEFAULT_SPEEDS(category)
    ELSE DEFAULT_SPEED_LIMIT

\* The speedLimit field of a raw zone entry, as the branch document holds
\* it: absent (or null), a number, a numeric string, the empty string, or a
\* string that is no number.
Unset == <<"undefined", 0>>
Num(n) == <<"number", n>>
Str(n) == <<"string", n>>
EmptyText == <<"empty", 0>>
Text == <<"text", 0>>

\* adminSpeedLimit !== undefined && adminSpeedLimit !== null && adminSpeedLimit !== ""
IsProvided(v) == v[1] \notin {"undefined", "empty"}

\* isNaN(Number(v)) for a provided value
IsNaN(v) == v[1] = "text"

\* Number(v) for a provided value that is a number
ToNumber(v) == v[2]

\* s?.category ?? "Default", the absent category written NoZoneId
CategoryOf(entry) == IF entry.category = NoZoneId THEN "Default" ELSE entry.category

\* One raw zone entry of a branch document becomes a loaded zone; radius Null
\* is an unset radius, loc Null a centre that is not a pair of numbers.
loadBranchSlowdowns(raw) ==
    [i \in 1..Len(raw) |->
        [id |-> raw[i].id,
         category |-> CategoryOf(raw[i]),
         loc |-> raw[i].loc,
         radius |-> IF raw[i].radius = Null THEN DEFAULT_ZONE_RADIUS ELSE raw[i].radius,
         speedLimit |-> IF /\ IsProvided(raw[i].speedLimit)
                           /\ ~IsNaN(raw[i].speedLimit)
                           /\ ToNumber(raw[i].speedLimit) > 0
                        THEN ToNumber(raw[i].speedLimit)
                        ELSE CategoryLimit(CategoryOf(raw[i]))]]

\* The zones of the driver's branch: a School zone without an admin limit
\* around metre 0 and a Church zone with one around metre 300.
BranchZones ==
    << [id |-> "A", category |-> "School", loc |-> 0, radius |-> Null, speedLimit |-> Unset],
       [id |-> "B", category |-> "Church", loc |-> 300, radius |-> 20, speedLimit |-> Num(30)] >>

ZoneRadius(z) == IF z.radius > 0 THEN z.radius ELSE DEFAULT_ZONE_RADIUS

ZoneContains(z, coord) ==
    /\ z.loc # Null
    /\ calculateDistanceMeters(coord, z.loc) <= ZoneRadius(z)

\* Mutant: the last zone in load order that contains the coordinate
checkActiveZoneWithDetails_Last(coord, zones) ==
    IF coord = Null \/ ~(\E i \in 1..Len(zones) : ZoneContains(zones[i], coord))
    THEN 0
    ELSE CHOOSE i \in 1..Len(zones) :
            /\ ZoneContains(zones[i], coord)
            /\ \A j \in (i + 1)..Len(zones) : ~ZoneContains(zones[j], coord)

\* Index of the zone checkActiveZoneWithDetails returns, 0 for null
checkActiveZoneWithDetails(coord, zones) ==
    IF coord = Null \/ ~(\E i \in 1..Len(zones) : ZoneContains(zones[i], coord))
    THEN 0
    ELSE CHOOSE i \in 1..Len(zones) :
            /\ ZoneContains(zones[i], coord)
            /\ \A j \in 1..(i - 1) : ~ZoneContains(zones[j], coord)

\* speedLimit of the returned zone object
EffectiveSpeedLimit(z) ==
    IF z.speedLimit > 0 THEN z.speedLimit ELSE CategoryLimit(z.category)

\* zone?.speedLimit || DEFAULT_SPEED_LIMIT
LimitAt(coord, zones) ==
    LET i == checkActiveZoneWithDetails(coord, zones)
    IN  IF i = 0 THEN DEFAULT_SPEED_LIMIT ELSE EffectiveSpeedLimit(zones[i])

\* zone?.id ?? "default"
ZoneKeyAt(coord, zones) ==
    LET i == checkActiveZoneWithDetails(coord, zones)
    IN  IF i = 0 THEN "default" ELSE zones[i].id

\* ------------------------------------------------------------------------
\* calculateSpeedKmh
\* ------------------------------------------------------------------------
\* Number.isFinite(speed) && speed > 0
GpsUsable(devSpeed) == devSpeed > 0

\* gps = speed * 3.6 < 200
GpsPlausible(devSpeed) == devSpeed * 36 < MaxPlausibleKmh * 10 * SpeedScale

\* Mutant: the device speed converted without the correction factor
GpsKmh_NoCorrection(devSpeed) == RoundDiv(devSpeed * 36, 10 * SpeedScale)

\* Math.round(gps * SPEED_CORRECTION_FACTOR)
GpsKmh(devSpeed) ==
    RoundDiv(devSpeed * 36 * SPEED_CORRECTION_FACTOR, 10 * SpeedScale * CorrectionDen)

\* dt = Math.max(1, (ts - prev.ts) / 1000), in milliseconds
ElapsedMs(prev, ts) == Max(1000, ts - prev.ts)

\* prev.coord && prev.ts && d > 0
DerivedUsable(prev, coord) ==
    /\ prev.coord # Null
    /\ prev.ts # 0
    /\ calculateDistanceMeters(prev.coord, coord) > 0

\* derived = (d / dt) * 3.6 < 200
DerivedPlausible(prev, coord, ts) ==
    calculateDistanceMeters(prev.coord, coord) * 3600 < MaxPlausibleKmh * ElapsedMs(prev, ts)

\* Math.round(derived)
DerivedKmh(prev, coord, ts) ==
    RoundDiv(calculateDistanceMeters(prev.coord, coord) * 3600, ElapsedMs(prev, ts))

\* kmh < 2 ? 0 : kmh
SnapToZero(kmh) == IF kmh < MinReportedKmh THEN 0 ELSE kmh

calculateSpeedKmh(prev, devSpeed, coord, ts) ==
    LET kmh == IF GpsUsable(devSpeed) /\ GpsPlausible(devSpeed)
                 THEN GpsKmh(devSpeed)
               ELSE IF DerivedUsable(prev, coord) /\ DerivedPlausible(prev, coord, ts)
                 THEN DerivedKmh(prev, coord, ts)
               ELSE 0
    IN  SnapToZero(kmh)

\* calculateAverageSpeed
calculateAverageSpeed(readings) ==
    IF Len(readings) = 0 THEN 0 ELSE RoundDiv(SumSeq(readings), Len(readings))


\* ------------------------------------------------------------------------
\* State
\* ------------------------------------------------------------------------
VARIABLES
    now,                     \* Date.now()
    speed,                   \* useState: last speed estimate, km/h
    location,                \* useState: last coordinate, Null before the first fix
    topSpeed,                \* useState
    totalDistance,           \* useState, in metres
    avgSpeed,                \* useState
    locationSubRef,          \* TRUE while the position subscription is live
    watchTopSpeed,           \* topSpeed as captured by the live watch callback's closure
    lastWriteTsRef,
    slowdownsRef,
    lastViolationTsRef,
    lastZoneViolationIdRef,
    overspeedStartTimeRef,   \* 0 for null
    prevFixRef,              \* [coord, ts]
    shiftStartTimeRef,       \* 0 for null
    lastLocationRef,
    speedReadingsRef,
    isTrackingMetricsRef,
    userStatusRef,
    currentUserIdRef,        \* NoUser for null
    trackingAllowedRef,
    savedMetrics,            \* AsyncStorage SHIFT_METRICS: <<>> or <<record>>
    savedState,              \* AsyncStorage SHIFT_STATE: <<>> or <<record>>
    docStatus,               \* status field of the driver's remote document
    violations,              \* violations field of the driver's remote document
    emissions,               \* history: the emissions of checkAndLogOverspeed, [zoneKey, at]
    tick,                    \* history: what the last handled fix was and did
    graceRun,                \* history: first tick of the current run of overspeeding ticks
    overSince,               \* history: first overspeeding tick since the last tick that was not
    lastDipAt,               \* history: last tick that was not overspeeding and met a running grace period
    speedsFed,               \* history: the speed estimates of the fixes of the active shift
    topExpected,             \* history: the largest of them, starting from a restored value
    beforeRestart,           \* history: the metrics in memory when the process last stopped,
                             \* kept until the next fix or shift button
    branchDoc,               \* slowdowns array of the branch document, raw
    currentSlowdownRef,      \* id of the zone the announcer recorded, NoZoneId for null
    slowdownAlertUntil,      \* isAlertingSlowdownRef is set until the clock reaches this
    violationAlertUntil,     \* isAlertingViolationRef is set until the clock reaches this
    prevViolationsCountRef,
    alertedViolationTimestampsRef,
    lastBackgroundViolationTime,   \* module variable of the background task
    lastBackgroundZoneId,          \* module variable of the background task
    bgTaskRegistered,        \* background location updates are started
    pendingStart,            \* startLocationWatch invocations awaiting the initial position
    lastLocationWriteAt,     \* history: time of the last remote location write, 0 for none
    writeGap,                \* history: time between the last two remote location writes
    lastRecordWindow,        \* history: for the last speeding record, how long the driver
                             \* had been overspeeding on every tick when it was written
    stopped,                 \* history: stopLocationWatch ran for a logout or the Login
                             \* screen and no start was requested since
    docBranchId,             \* branchId field of the driver's remote document
    branchLoads,             \* the loadBranchSlowdowns calls of the listener in flight:
                             \* their branch ids in the order they were issued
    liveSubscriptions,       \* history: position subscriptions created and not removed
    bgRun,                   \* the run of the background task that has read the durable
                             \* store and the driver's document and awaits the branch
                             \* document: <<>> or <<[devSpeed, coord, metrics, branchId]>>
    pendingFixes             \* the fixes whose callback awaits its remote location
                             \* write, oldest first: records [kmh, coord, at]

subVars == <<locationSubRef, liveSubscriptions>>

memVars == <<speed, location, topSpeed, totalDistance, avgSpeed, subVars,
             watchTopSpeed, lastWriteTsRef, slowdownsRef, lastViolationTsRef,
             lastZoneViolationIdRef, overspeedStartTimeRef, prevFixRef,
             shiftStartTimeRef, lastLocationRef, speedReadingsRef,
             isTrackingMetricsRef, userStatusRef, currentUserIdRef, trackingAllowedRef>>

histVars == <<emissions, tick, graceRun, overSince, lastDipAt, speedsFed, topExpected, beforeRestart>>

announcerVars == <<currentSlowdownRef, slowdownAlertUntil>>
alertVars == <<violationAlertUntil, prevViolationsCountRef, alertedViolationTimestampsRef>>
bgVars == <<lastBackgroundViolationTime, lastBackgroundZoneId, bgTaskRegistered>>
writeHist == <<lastLocationWriteAt, writeGap, lastRecordWindow, stopped>>
branchVars == <<branchDoc, docBranchId, branchLoads>>
startVars == <<pendingStart, pendingFixes>>
pendingVars == <<startVars, bgRun>>
extVars == <<branchVars, announcerVars, alertVars, bgVars, pendingVars, writeHist>>

vars == <<now, memVars, savedMetrics, savedState, docStatus, violations, histVars, extVars>>

NoUser == "none"
NoBranch == "none"
HomeBranch == "X"
OtherBranch == "Y"

\* The zones of the other branch: a Crosswalk zone around metre 800
OtherBranchZones ==
    << [id |-> "C", category |-> "Crosswalk", loc |-> 800, radius |-> Null,
        speedLimit |-> Unset] >>

\* The slowdowns array of a branch document; branchDoc is the document of the
\* branch the driver starts in
Branches(branchId) ==
    CASE branchId = HomeBranch -> branchDoc
      [] branchId = OtherBranch -> OtherBranchZones
      [] OTHER -> <<>>
Driver == "driverA"
OtherDriver == "driverB"
Statuses == {"Offline", "Available", "Delivering"}

\* kind is "none", "fix" (a fix was handled) or "restore" (a snapshot was reloaded)
NoTick == [kind |-> "none", at |-> 0, devSpeed |-> 0,
           active |-> FALSE, delta |-> Null, over |-> FALSE, zoneKey |-> "default",
           outcome |-> "none", emitted |-> 0, elapsed |-> Null, cooldownFree |-> FALSE,
           status |-> "Offline", prevZone |-> NoZoneId, zoneId |-> NoZoneId,
           announced |-> "none", spoke |-> FALSE, warned |-> 0, wrote |-> FALSE,
           failed |-> FALSE, skipped |-> "none"]

\* The metrics a snapshot has to bring back
MemoryMetrics ==
    [topSpeed |-> topSpeed, totalDistance |-> totalDistance, avgSpeed |-> avgSpeed,
     speedReadings |-> speedReadingsRef, lastLocationCoords |-> lastLocationRef]

NoMetrics ==
    [topSpeed |-> 0, totalDistance |-> 0, avgSpeed |-> 0,
     speedReadings |-> <<>>, lastLocationCoords |-> Null]

\* The provider as constructed (useState / useRef initial values), nobody logged in
Constructed ==
    /\ speed = 0
    /\ location = Null
    /\ topSpeed = 0
    /\ totalDistance = 0
    /\ avgSpeed = 0
    /\ locationSubRef = FALSE
    /\ liveSubscriptions = 0
    /\ watchTopSpeed = 0
    /\ lastWriteTsRef = 0
    /\ slowdownsRef = <<>>
    /\ lastViolationTsRef = 0
    /\ lastZoneViolationIdRef = NoZoneId
    /\ overspeedStartTimeRef = 0
    /\ prevFixRef = [coord |-> Null, ts |-> 0]
    /\ shiftStartTimeRef = 0
    /\ lastLocationRef = Null
    /\ speedReadingsRef = <<>>
    /\ isTrackingMetricsRef = FALSE
    /\ userStatusRef = "Offline"
    /\ currentUserIdRef = NoUser
    /\ trackingAllowedRef = TRUE
    /\ currentSlowdownRef = NoZoneId
    /\ slowdownAlertUntil = 0
    /\ violationAlertUntil = 0
    /\ prevViolationsCountRef = 0
    /\ alertedViolationTimestampsRef = {}
    /\ lastBackgroundViolationTime = 0
    /\ lastBackgroundZoneId = NoZoneId
    /\ pendingStart = 0
    /\ docBranchId = HomeBranch
    /\ branchLoads = <<>>
    /\ bgRun = <<>>
    /\ pendingFixes = <<>>

NoHistory ==
    /\ emissions = <<>>
    /\ tick = NoTick
    /\ graceRun = 0
    /\ overSince = 0
    /\ lastDipAt = 0
    /\ speedsFed = <<>>
    /\ topExpected = 0
    /\ beforeRestart = NoMetrics
    /\ lastLocationWriteAt = 0
    /\ writeGap = Null
    /\ lastRecordWindow = Null
    /\ stopped = FALSE

\* First launch: nothing stored, the driver's document says Offline
Init ==
    /\ now = StartTime
    /\ Constructed
    /\ savedMetrics = <<>>
    /\ savedState = <<>>
    /\ docStatus = "Offline"
    /\ violations = <<>>
    /\ branchDoc = BranchZones
    /\ bgTaskRegistered = FALSE
    /\ NoHistory


\* ------------------------------------------------------------------------
\* checkAndLogOverspeed
\* ------------------------------------------------------------------------
\* Mutant: the detector without its status gate
StatusBlocks_Never(status) == FALSE

\* userStatusRef.current !== "Delivering"
StatusBlocks(status) == status # "Delivering"

\* speedKmh < MIN_SPEED_FOR_VIOLATION
BelowMinimum(kmh) == kmh < MIN_SPEED_FOR_VIOLATION

\* speedKmh <= limit
WithinLimit(kmh, limit) == kmh <= limit

\* Mutant: a grace period of 9 s
GracePassed_Early(t, start) == t - start >= 9000

\* Mutant: the grace period compared with > instead of >=
GracePassed_Strict(t, start) == t - start > OVERSPEED_GRACE_PERIOD_MS

\* overspeedDuration >= OVERSPEED_GRACE_PERIOD_MS
GracePassed(t, start) == t - start >= OVERSPEED_GRACE_PERIOD_MS

\* Mutant: the cooldown applied whatever the zone
CooldownActive_AnyZone(t, lastTs, lastKey, zoneKey) ==
    t - lastTs < VIOLATION_COOLDOWN_MS

\* Mutant: the cooldown of a zone never runs out
CooldownActive_Forever(t, lastTs, lastKey, zoneKey) ==
    /\ lastTs # 0
    /\ zoneKey = (IF lastKey = NoZoneId THEN "default" ELSE lastKey)

\* now - lastViolationTsRef.current < VIOLATION_COOLDOWN_MS && sameZone
CooldownActive(t, lastTs, lastKey, zoneKey) ==
    /\ t - lastTs < VIOLATION_COOLDOWN_MS
    /\ zoneKey = (IF lastKey = NoZoneId THEN "default" ELSE lastKey)

\* The path checkAndLogOverspeed takes: "reset" (one of the three early
\* returns), "start" (grace period started), "wait" (grace period running),
\* "suppressed" (cooldown) or "emit".
DetectorOutcome(status, kmh, limit, start, t, lastTs, lastKey, zoneKey) ==
    IF StatusBlocks(status) \/ BelowMinimum(kmh) \/ WithinLimit(kmh, limit) THEN "reset"
    ELSE IF start = 0 THEN "start"
    ELSE IF ~GracePassed(t, start) THEN "wait"
    ELSE IF CooldownActive(t, lastTs, lastKey, zoneKey) THEN "suppressed"
    ELSE "emit"

\* Mutant: the grace start kept when a violation is emitted
StartAfter_KeepOnEmit(outcome, start, t) ==
    CASE outcome = "reset" -> 0
      [] outcome = "start" -> t
      [] OTHER -> start

\* Mutant: the early returns leave the grace start in place
StartAfter_KeepOnReset(outcome, start, t) ==
    CASE outcome = "start" -> t
      [] outcome = "emit" -> 0
      [] OTHER -> start

\* overspeedStartTimeRef.current after checkAndLogOverspeed
StartAfter(outcome, start, t) ==
    CASE outcome = "reset" -> 0
      [] outcome = "start" -> t
      [] outcome = "emit" -> 0
      [] OTHER -> start

\* The payload of the remote append
ViolationPayload(coord, zones, t) ==
    LET i == checkActiveZoneWithDetails(coord, zones)
    IN  [message |-> "Speeding violation",
         at |-> t,
         zoneKey |-> ZoneKeyAt(coord, zones),
         zoneCategory |-> IF i = 0 THEN "Default" ELSE zones[i].category,
         zoneLimit |-> IF i = 0 THEN Null ELSE EffectiveSpeedLimit(zones[i])]

\* ------------------------------------------------------------------------
\* The metrics block of the watch callback
\* ------------------------------------------------------------------------
\* Mutant: the metrics block of the callback without its guard
ShiftActive_Always == TRUE

\* isTrackingMetricsRef.current && shiftStartTimeRef.current
ShiftActive == isTrackingMetricsRef /\ shiftStartTimeRef # 0

\* kmh > topSpeed, against the topSpeed the callback's closure holds
IsNewTopSpeed(kmh, captured) == kmh > captured

\* Mutant: stationary readings appended to the history too
IsReading_Any(kmh) == kmh >= 0

\* kmh > 0
IsReading(kmh) == kmh > 0

\* Mutant: a displacement of exactly 0.5 km accepted
DistanceAccepted_Inclusive(d) == d > MinDeltaM /\ d <= MaxDeltaM

\* distanceKm > 0.001 && distanceKm < 0.5
DistanceAccepted(d) == d > MinDeltaM /\ d < MaxDeltaM

\* the record saveShiftMetrics stores
StoredMetrics(m) ==
    [topSpeed |-> m.topSpeed, totalDistance |-> m.totalDistance, avgSpeed |-> m.avgSpeed,
     shiftStartTime |-> m.shiftStartTime, speedReadings |-> m.speedReadings,
     lastLocationCoords |-> m.lastLocationCoords]

\* (now - lastWriteTsRef.current) >= 2000
WRITE_THROTTLE_MS == 2000
ShouldWriteToFirestore(t, lastWrite) == t - lastWrite >= WRITE_THROTTLE_MS

\* ------------------------------------------------------------------------
\* The claims' reading of a tick, independent of the detector's own state
\* ------------------------------------------------------------------------
Overspeeding(status, kmh, limit) ==
    status = "Delivering" /\ kmh >= MIN_SPEED_FOR_VIOLATION /\ kmh > limit

\* no earlier emission for this zone key is less than a cooldown old
CooldownFree(log, zoneKey, t) ==
    \A i \in 1..Len(log) :
        log[i].zoneKey = zoneKey => t - log[i].at >= VIOLATION_COOLDOWN_MS

\* graceRun: 0 outside a run, the time of the run's first tick inside one, and
\* Null once the run's first tick past the grace period fell into a cooldown.
RunAfter(run, over, t, free) ==
    IF ~over THEN 0
    ELSE IF run = 0 THEN t
    ELSE IF run = Null THEN Null
    ELSE IF t - run < OVERSPEED_GRACE_PERIOD_MS THEN run
    ELSE IF free THEN 0
    ELSE Null

RunElapsed(run, over, t) ==
    IF ~over \/ run = Null THEN Null
    ELSE IF run = 0 THEN 0
    ELSE t - run

\* ------------------------------------------------------------------------
\* handleSlowdownTransition and the spoken alerts
\* ------------------------------------------------------------------------
\* safeSpeak waits this long before it speaks
SAFE_SPEAK_DELAY_MS == 250
\* the busy flags are cleared this long after safeSpeak returned
ENTER_ALERT_MS == 4000
LEAVE_ALERT_MS == 2500
VIOLATION_ALERT_MS == 3000

\* alertsEnabledRef and trackingAllowedRef are both !onLogin
alertsEnabledRef == trackingAllowedRef

\* isAlertingSlowdownRef.current / isAlertingViolationRef.current at time t
isAlertingSlowdownRef(t) == slowdownAlertUntil > t
isAlertingViolationRef(t) == violationAlertUntil > t

\* zone?.id ?? null
ZoneIdAt(coord, zones) ==
    LET i == checkActiveZoneWithDetails(coord, zones)
    IN  IF i = 0 THEN NoZoneId ELSE zones[i].id

\* Mutant: an entering transition taken on every fix inside a zone
SlowdownTransition_Level(status, enabled, prevZoneId, newZoneId) ==
    IF status # "Delivering" THEN "none"
    ELSE IF ~enabled THEN "silent"
    ELSE IF newZoneId # NoZoneId THEN "entering"
    ELSE IF prevZoneId # NoZoneId THEN "leaving"
    ELSE "none"

\* The path handleSlowdownTransition takes: "none" (status gate or steady
\* state), "silent" (alerts disabled), "entering" or "leaving".
SlowdownTransition(status, enabled, prevZoneId, newZoneId) ==
    IF status # "Delivering" THEN "none"
    ELSE IF ~enabled THEN "silent"
    ELSE IF newZoneId # NoZoneId /\ newZoneId # prevZoneId THEN "entering"
    ELSE IF newZoneId = NoZoneId /\ prevZoneId # NoZoneId THEN "leaving"
    ELSE "none"

\* currentSlowdownRef.current after the handler
SlowdownAfter(transition, prevZoneId, newZoneId) ==
    IF transition = "none" THEN prevZoneId ELSE newZoneId

\* when the announcer's busy flag set at t is cleared
SlowdownBusyUntil(transition, t) ==
    t + SAFE_SPEAK_DELAY_MS + (IF transition = "entering" THEN ENTER_ALERT_MS ELSE LEAVE_ALERT_MS)

\* Mutant: a transition announced whatever the busy flag says
SpeaksTransition_Always(transition, t) == transition \in {"entering", "leaving"}

\* if (isAlertingSlowdownRef.current) { skip } else { ... safeSpeak(message) }
SpeaksTransition(transition, t) ==
    transition \in {"entering", "leaving"} /\ ~isAlertingSlowdownRef(t)

\* if (!isAlertingViolationRef.current) { ... safeSpeak(...) }
SpeaksWarning(emits, t) == emits /\ ~isAlertingViolationRef(t)

\* `${violation.message}_${violation.issuedAt?.seconds}`
ViolationKey(v) == <<v.message, v.at \div 1000>>

\* The violation alert of the user-document listener, run for a snapshot that
\* carries the violations viols at time t while the flag is set until flagUntil:
\* the records it alerts for.
ListenerAlerted(t, flagUntil, viols) ==
    IF /\ alertsEnabledRef
       /\ ~(flagUntil > t)
       /\ Len(viols) > prevViolationsCountRef
       /\ prevViolationsCountRef # 0
    THEN {i \in (prevViolationsCountRef + 1)..Len(viols) :
             ViolationKey(viols[i]) \notin alertedViolationTimestampsRef}
    ELSE {}

\* isAlertingViolationRef after that snapshot: the first timer of the alerts
\* clears the flag
ListenerFlagUntil(t, flagUntil, viols) ==
    LET alerted == ListenerAlerted(t, flagUntil, viols)
    IN  IF alerted = {} THEN flagUntil
        ELSE LET first == CHOOSE i \in alerted : \A j \in alerted : i <= j
             IN  t + VIOLATION_ALERT_MS
                   + (IF viols[first].message = "Speeding violation"
                      THEN SAFE_SPEAK_DELAY_MS ELSE 0)

ListenerKeys(t, flagUntil, viols) ==
    alertedViolationTimestampsRef
        \cup {ViolationKey(viols[i]) : i \in ListenerAlerted(t, flagUntil, viols)}

\* A deadline that has passed is written 0
Pending(until, t) == IF until > t THEN until ELSE 0

Min(a, b) == IF a <= b THEN a ELSE b

\* The violation alert of the listener for a snapshot carrying viols at the
\* current time
SnapshotAlert(viols) ==
    /\ violationAlertUntil' =
         Pending(ListenerFlagUntil(now, violationAlertUntil, viols), now)
    /\ alertedViolationTimestampsRef' = ListenerKeys(now, violationAlertUntil, viols)
    /\ prevViolationsCountRef' = Len(viols)

\* The time between two remote location writes, the second at t; a time of
\* WRITE_THROTTLE_MS or more is recorded as WRITE_THROTTLE_MS
GapAt(t) ==
    IF lastLocationWriteAt = 0 THEN writeGap
    ELSE Min(t - lastLocationWriteAt, WRITE_THROTTLE_MS)

\* For how long the driver has been overspeeding on every tick up to t; a
\* time of OVERSPEED_GRACE_PERIOD_MS or more is recorded as that
WindowAt(t) ==
    IF overSince = 0 THEN 0 ELSE Min(t - overSince, OVERSPEED_GRACE_PERIOD_MS)

\* ------------------------------------------------------------------------
\* The position-watch callback: one fix, handled to its end
\* ------------------------------------------------------------------------
\* dt: milliseconds since the last fix; devSpeed, coord: the fix; ok: whether
\* the remote append of a violation succeeds.
Fix(dt, devSpeed, coord, ok) ==
    LET t == now + dt
        kmh == calculateSpeedKmh(prevFixRef, devSpeed, coord, t)
        active == ShiftActive
        reading == active /\ IsReading(kmh)
        readings == IF reading THEN Append(speedReadingsRef, kmh) ELSE speedReadingsRef
        delta == IF lastLocationRef = Null THEN Null
                 ELSE calculateDistanceMeters(lastLocationRef, coord)
        accepted == active /\ delta # Null /\ DistanceAccepted(delta)
        zoneKey == ZoneKeyAt(coord, slowdownsRef)
        limit == LimitAt(coord, slowdownsRef)
        outcome == DetectorOutcome(userStatusRef, kmh, limit, overspeedStartTimeRef, t,
                                   lastViolationTsRef, lastZoneViolationIdRef, zoneKey)
        over == Overspeeding(userStatusRef, kmh, limit)
        free == CooldownFree(emissions, zoneKey, t)
        writes == ShouldWriteToFirestore(t, lastWriteTsRef)
        newZoneId == ZoneIdAt(coord, slowdownsRef)
        transition == SlowdownTransition(userStatusRef, alertsEnabledRef,
                                         currentSlowdownRef, newZoneId)
        speaks == SpeaksTransition(transition, t)
        warns == SpeaksWarning(outcome = "emit", t)
        warnedUntil == IF warns THEN t + SAFE_SPEAK_DELAY_MS + VIOLATION_ALERT_MS
                       ELSE violationAlertUntil
        appended == IF outcome = "emit" /\ ok
                    THEN Append(violations, ViolationPayload(coord, slowdownsRef, t))
                    ELSE violations
        listening == currentUserIdRef # NoUser
    IN  /\ locationSubRef
        /\ now' = t
        /\ prevFixRef' = [coord |-> coord, ts |-> t]
        /\ speed' = kmh
        /\ location' = coord
        /\ topSpeed' = IF active /\ IsNewTopSpeed(kmh, watchTopSpeed) THEN kmh ELSE topSpeed
        /\ speedReadingsRef' = readings
        /\ avgSpeed' = IF reading THEN calculateAverageSpeed(readings) ELSE avgSpeed
        /\ totalDistance' = IF accepted THEN totalDistance + delta ELSE totalDistance
        /\ savedMetrics' =
             IF accepted
             THEN << StoredMetrics([topSpeed |-> Max(kmh, watchTopSpeed),
                                    totalDistance |-> totalDistance + delta,
                                    avgSpeed |-> calculateAverageSpeed(readings),
                                    shiftStartTime |-> shiftStartTimeRef,
                                    speedReadings |-> readings,
                                    lastLocationCoords |-> coord]) >>
             ELSE savedMetrics
        /\ lastLocationRef' = IF active THEN coord ELSE lastLocationRef
        /\ lastWriteTsRef' = IF writes THEN t ELSE lastWriteTsRef
        /\ overspeedStartTimeRef' = StartAfter(outcome, overspeedStartTimeRef, t)
        /\ lastViolationTsRef' = IF outcome = "emit" THEN t ELSE lastViolationTsRef
        /\ lastZoneViolationIdRef' = IF outcome = "emit" THEN zoneKey
                                     ELSE lastZoneViolationIdRef
        /\ violations' = appended
        /\ currentSlowdownRef' = SlowdownAfter(transition, currentSlowdownRef, newZoneId)
        /\ slowdownAlertUntil' = IF speaks THEN SlowdownBusyUntil(transition, t)
                                 ELSE Pending(slowdownAlertUntil, t)
        /\ violationAlertUntil' =
             IF listening /\ writes
             THEN Pending(ListenerFlagUntil(t, warnedUntil, violations), t)
             ELSE Pending(warnedUntil, t)
        /\ alertedViolationTimestampsRef' =
             IF listening /\ writes
             THEN ListenerKeys(t, warnedUntil, violations)
             ELSE alertedViolationTimestampsRef
        /\ prevViolationsCountRef' =
             IF listening /\ (writes \/ appended # violations) THEN Len(appended)
             ELSE prevViolationsCountRef
        /\ lastLocationWriteAt' = IF writes THEN t ELSE lastLocationWriteAt
        /\ writeGap' = IF writes THEN GapAt(t) ELSE writeGap
        /\ lastRecordWindow' = IF appended # violations
                               THEN WindowAt(t)
                               ELSE lastRecordWindow
        /\ emissions' = IF outcome = "emit"
                        THEN Append(emissions, [zoneKey |-> zoneKey, at |-> t])
                        ELSE emissions
        /\ tick' = [kind |-> "fix", at |-> t, devSpeed |-> devSpeed,
                    active |-> active, delta |-> delta, over |-> over,
                    zoneKey |-> zoneKey, outcome |-> outcome,
                    emitted |-> IF outcome = "emit" THEN 1 ELSE 0,
                    elapsed |-> RunElapsed(graceRun, over, t), cooldownFree |-> free,
                    status |-> userStatusRef, prevZone |-> currentSlowdownRef,
                    zoneId |-> newZoneId, announced |-> transition, spoke |-> speaks,
                    warned |-> IF warns THEN 1 ELSE 0, wrote |-> writes,
                    failed |-> (outcome = "emit" /\ ~ok),
                    skipped |-> IF transition \in {"entering", "leaving"}
                                THEN (IF speaks THEN "none" ELSE newZoneId)
                                ELSE IF tick.skipped = newZoneId THEN tick.skipped
                                ELSE "none"]
        /\ graceRun' = RunAfter(graceRun, over, t, free)
        /\ overSince' = IF ~over THEN 0 ELSE IF overSince = 0 THEN t ELSE overSince
        /\ lastDipAt' = IF over THEN lastDipAt
                        ELSE IF overSince # 0 /\ t - overSince < OVERSPEED_GRACE_PERIOD_MS
                        THEN t ELSE 0
        /\ speedsFed' = IF active THEN Append(speedsFed, kmh) ELSE speedsFed
        /\ topExpected' = IF active THEN Max(topExpected, kmh) ELSE topExpected
        /\ beforeRestart' = NoMetrics
        /\ UNCHANGED <<subVars, watchTopSpeed, slowdownsRef, shiftStartTimeRef,
                       isTrackingMetricsRef, userStatusRef, currentUserIdRef,
                       trackingAllowedRef, savedState, docStatus, branchVars, bgVars,
                       pendingVars, stopped>>

\* ------------------------------------------------------------------------
\* The user-document snapshot listener, as far as the detector reads it
\* ------------------------------------------------------------------------
\* The remote document's status changes to st and the listener receives it
\* while the watch is live (no restart of the watch, same branch).
StatusSnapshot(st) ==
    /\ currentUserIdRef # NoUser
    /\ locationSubRef
    /\ st # docStatus
    /\ docStatus' = st
    /\ userStatusRef' = st
    /\ slowdownsRef' = loadBranchSlowdowns(Branches(docBranchId))
    /\ SnapshotAlert(violations)
    /\ UNCHANGED <<now, speed, location, topSpeed, totalDistance, avgSpeed,
                   subVars, watchTopSpeed, lastWriteTsRef, lastViolationTsRef,
                   lastZoneViolationIdRef, overspeedStartTimeRef, prevFixRef,
                   shiftStartTimeRef, lastLocationRef, speedReadingsRef,
                   isTrackingMetricsRef, currentUserIdRef, trackingAllowedRef,
                   savedMetrics, savedState, violations, histVars>>
    /\ UNCHANGED <<branchVars, announcerVars, bgVars, pendingVars, writeHist>>

\* ------------------------------------------------------------------------
\* The detector specification: a driver logged in on a device that holds no
\* shift snapshot, the watch live, the remote status Delivering.
\* ------------------------------------------------------------------------
DetDeltas == {5000, 55000}
DetSpeeds == {87}
DetCoords == {0, 300, 800}

InitDetector ==
    /\ now = StartTime
    /\ speed = 0
    /\ location = 800
    /\ topSpeed = 0
    /\ totalDistance = 0
    /\ avgSpeed = 0
    /\ locationSubRef = TRUE
    /\ liveSubscriptions = 1
    /\ watchTopSpeed = 0
    /\ lastWriteTsRef = 0
    /\ slowdownsRef = loadBranchSlowdowns(BranchZones)
    /\ lastViolationTsRef = 0
    /\ lastZoneViolationIdRef = NoZoneId
    /\ overspeedStartTimeRef = 0
    /\ prevFixRef = [coord |-> 800, ts |-> StartTime]
    /\ shiftStartTimeRef = 0
    /\ lastLocationRef = Null
    /\ speedReadingsRef = <<>>
    /\ isTrackingMetricsRef = FALSE
    /\ userStatusRef = "Delivering"
    /\ currentUserIdRef = Driver
    /\ trackingAllowedRef = TRUE
    /\ savedMetrics = <<>>
    /\ savedState = <<>>
    /\ docStatus = "Delivering"
    /\ violations = <<>>
    /\ branchDoc = BranchZones
    /\ currentSlowdownRef = NoZoneId
    /\ slowdownAlertUntil = 0
    /\ violationAlertUntil = 0
    /\ prevViolationsCountRef = 0
    /\ alertedViolationTimestampsRef = {}
    /\ lastBackgroundViolationTime = 0
    /\ lastBackgroundZoneId = NoZoneId
    /\ bgTaskRegistered = FALSE
    /\ pendingStart = 0
    /\ docBranchId = HomeBranch
    /\ branchLoads = <<>>
    /\ bgRun = <<>>
    /\ pendingFixes = <<>>
    /\ NoHistory

FixDetector ==
    \E dt \in DetDeltas, s \in DetSpeeds, c \in DetCoords :
        /\ now + dt <= StartTime + DetHorizon
        /\ Fix(dt, s, c, TRUE)

SnapshotDetector == \E st \in {"Offline", "Delivering"} : StatusSnapshot(st)

NextDetector == FixDetector \/ SnapshotDetector

SpecDetector == InitDetector /\ [][NextDetector]_vars


\* ------------------------------------------------------------------------
\* The shift buttons of the Home screen, the process and the login
\* ------------------------------------------------------------------------
detectorRefs == <<lastViolationTsRef, lastZoneViolationIdRef>>
watchVars == <<speed, location, subVars, watchTopSpeed, lastWriteTsRef, prevFixRef>>
detectorHist == <<emissions, graceRun, overSince, lastDipAt>>

\* resetDrivingMetrics
resetDrivingMetrics ==
    /\ shiftStartTimeRef' = 0
    /\ lastLocationRef' = Null
    /\ speedReadingsRef' = <<>>
    /\ isTrackingMetricsRef' = FALSE
    /\ overspeedStartTimeRef' = 0
    /\ totalDistance' = 0
    /\ topSpeed' = 0
    /\ avgSpeed' = 0
    /\ savedMetrics' = <<>>
    /\ savedState' = <<>>

\* initializeShiftMetrics(currentLocation), currentLocation a valid coordinate
initializeShiftMetrics(currentLocation) ==
    /\ shiftStartTimeRef' = now
    /\ lastLocationRef' = currentLocation
    /\ speedReadingsRef' = <<>>
    /\ isTrackingMetricsRef' = TRUE
    /\ overspeedStartTimeRef' = 0
    /\ totalDistance' = 0
    /\ topSpeed' = 0
    /\ avgSpeed' = 0
    /\ savedMetrics' = << StoredMetrics([topSpeed |-> 0, totalDistance |-> 0, avgSpeed |-> 0,
                                        shiftStartTime |-> now, speedReadings |-> <<>>,
                                        lastLocationCoords |-> currentLocation]) >>
    /\ savedState' = IF currentUserIdRef # NoUser
                     THEN << [isActive |-> TRUE, uid |-> currentUserIdRef] >>
                     ELSE savedState

\* The Home screen acts for a logged-in driver whose position is being watched;
\* its updateDoc of the status reaches the snapshot listener at once.
HomeReady == currentUserIdRef # NoUser /\ locationSubRef

StatusWritten(st, viols) ==
    /\ docStatus' = st
    /\ userStatusRef' = st
    /\ slowdownsRef' = loadBranchSlowdowns(Branches(docBranchId))
    /\ SnapshotAlert(viols)
    /\ UNCHANGED <<branchVars, announcerVars, bgVars, pendingVars, writeHist>>

ShiftHistoryReset ==
    /\ tick' = NoTick
    /\ speedsFed' = <<>>
    /\ topExpected' = 0
    /\ beforeRestart' = NoMetrics
    /\ UNCHANGED detectorHist

\* handleStartShift
StartShift ==
    /\ HomeReady
    /\ docStatus = "Offline"
    /\ resetDrivingMetrics
    /\ StatusWritten("Available", violations)
    /\ ShiftHistoryReset
    /\ UNCHANGED <<now, watchVars, detectorRefs, currentUserIdRef, trackingAllowedRef,
                   violations>>

\* handleStartDelivering
StartDelivering ==
    /\ HomeReady
    /\ docStatus = "Available"
    /\ location # Null
    /\ initializeShiftMetrics(location)
    /\ StatusWritten("Delivering", violations)
    /\ ShiftHistoryReset
    /\ UNCHANGED <<now, watchVars, detectorRefs, currentUserIdRef, trackingAllowedRef,
                   violations>>

\* handleCancelShift, confirmed
CancelShift ==
    /\ HomeReady
    /\ docStatus = "Available"
    /\ StatusWritten("Offline", violations)
    /\ resetDrivingMetrics
    /\ ShiftHistoryReset
    /\ UNCHANGED <<now, watchVars, detectorRefs, currentUserIdRef, trackingAllowedRef,
                   violations>>

\* getShiftMetrics().durationMinutes
DurationMinutes == IF shiftStartTimeRef = 0 THEN 0 ELSE RoundDiv(now - shiftStartTimeRef, 60000)

\* durationMinutes > 0 || distance > 0.01 || finalTopSpeed > 0, the distance
\* being the kilometres rounded to two decimals
HasValidData == DurationMinutes > 0 \/ RoundDiv(totalDistance, 10) > 1 \/ topSpeed > 0

DrivingHistory ==
    [message |-> "Shift completed", at |-> now, zoneKey |-> NoZoneId,
     zoneCategory |-> NoZoneId, zoneLimit |-> Null]

\* handleEndShift
EndShift ==
    /\ HomeReady
    /\ docStatus = "Delivering"
    /\ violations' = IF HasValidData THEN Append(violations, DrivingHistory) ELSE violations
    /\ StatusWritten("Offline", violations')
    /\ resetDrivingMetrics
    /\ ShiftHistoryReset
    /\ UNCHANGED <<now, watchVars, detectorRefs, currentUserIdRef, trackingAllowedRef>>

\* The process is killed and launched again: the provider is constructed anew,
\* the durable store and the remote document stay.
Restart ==
    /\ currentUserIdRef # NoUser
    /\ speed' = 0
    /\ location' = Null
    /\ topSpeed' = 0
    /\ totalDistance' = 0
    /\ avgSpeed' = 0
    /\ locationSubRef' = FALSE
    /\ liveSubscriptions' = 0
    /\ watchTopSpeed' = 0
    /\ lastWriteTsRef' = 0
    /\ slowdownsRef' = <<>>
    /\ lastViolationTsRef' = 0
    /\ lastZoneViolationIdRef' = NoZoneId
    /\ overspeedStartTimeRef' = 0
    /\ prevFixRef' = [coord |-> Null, ts |-> 0]
    /\ shiftStartTimeRef' = 0
    /\ lastLocationRef' = Null
    /\ speedReadingsRef' = <<>>
    /\ isTrackingMetricsRef' = FALSE
    /\ userStatusRef' = "Offline"
    /\ currentUserIdRef' = NoUser
    /\ trackingAllowedRef' = TRUE
    /\ beforeRestart' = MemoryMetrics
    /\ tick' = NoTick
    /\ graceRun' = 0
    /\ overSince' = 0
    /\ lastDipAt' = 0
    /\ currentSlowdownRef' = NoZoneId
    /\ slowdownAlertUntil' = 0
    /\ violationAlertUntil' = 0
    /\ prevViolationsCountRef' = 0
    /\ alertedViolationTimestampsRef' = {}
    /\ lastBackgroundViolationTime' = 0
    /\ lastBackgroundZoneId' = NoZoneId
    /\ pendingStart' = 0
    /\ pendingFixes' = pendingFixes
    /\ bgRun' = <<>>
    /\ stopped' = FALSE
    /\ UNCHANGED <<now, savedMetrics, savedState, docStatus, violations, emissions,
                   speedsFed, topExpected, branchVars, bgTaskRegistered,
                   lastLocationWriteAt, writeGap, lastRecordWindow>>

\* savedMetrics && savedState?.isActive && savedState?.uid === user.uid
CanRestore(uid) ==
    /\ savedMetrics # <<>>
    /\ savedState # <<>>
    /\ savedState[1].isActive
    /\ savedState[1].uid = uid

\* onAuthStateChanged handler for a user, up to the subscription to the
\* driver's document
AuthLogin(uid) ==
    /\ currentUserIdRef = NoUser
    /\ currentUserIdRef' = uid
    /\ locationSubRef' = FALSE
    /\ liveSubscriptions' = (IF locationSubRef THEN liveSubscriptions - 1 ELSE liveSubscriptions)
    /\ IF CanRestore(uid)
       THEN /\ shiftStartTimeRef' = savedMetrics[1].shiftStartTime
            /\ lastLocationRef' = savedMetrics[1].lastLocationCoords
            /\ speedReadingsRef' = savedMetrics[1].speedReadings
            /\ isTrackingMetricsRef' = TRUE
            /\ topSpeed' = savedMetrics[1].topSpeed
            /\ totalDistance' = savedMetrics[1].totalDistance
            /\ avgSpeed' = savedMetrics[1].avgSpeed
            /\ tick' = [NoTick EXCEPT !.kind = "restore"]
            /\ speedsFed' = savedMetrics[1].speedReadings
            /\ topExpected' = savedMetrics[1].topSpeed
       ELSE UNCHANGED <<shiftStartTimeRef, lastLocationRef, speedReadingsRef,
                        isTrackingMetricsRef, topSpeed, totalDistance, avgSpeed,
                        tick, speedsFed, topExpected>>
    /\ UNCHANGED <<now, speed, location, watchTopSpeed, lastWriteTsRef, slowdownsRef,
                   detectorRefs, overspeedStartTimeRef, prevFixRef, userStatusRef,
                   trackingAllowedRef, savedMetrics, savedState, docStatus, violations,
                   detectorHist, beforeRestart>>
    /\ bgTaskRegistered' = FALSE
    /\ UNCHANGED <<branchVars, announcerVars, alertVars, lastBackgroundViolationTime,
                   lastBackgroundZoneId, pendingVars, writeHist>>

\* onSnapshot handler while no watch is live: status, violation alert, zones,
\* then startLocationWatch run to its end with the initial fix (devSpeed,
\* coord); bg tells whether the background permission is granted.  The closure
\* of the handler is the first render's, whose topSpeed is 0.
OnSnapshot(devSpeed, coord, bg) ==
    /\ currentUserIdRef # NoUser
    /\ ~locationSubRef
    /\ trackingAllowedRef
    /\ userStatusRef' = docStatus
    /\ slowdownsRef' = loadBranchSlowdowns(Branches(docBranchId))
    /\ prevFixRef' = [coord |-> coord, ts |-> now]
    /\ speed' = calculateSpeedKmh([coord |-> coord, ts |-> now], devSpeed, coord, now)
    /\ location' = coord
    /\ locationSubRef' = TRUE
    /\ liveSubscriptions' = liveSubscriptions + 1
    /\ watchTopSpeed' = 0
    /\ UNCHANGED <<now, topSpeed, totalDistance, avgSpeed, lastWriteTsRef, detectorRefs,
                   overspeedStartTimeRef, shiftStartTimeRef, lastLocationRef,
                   speedReadingsRef, isTrackingMetricsRef, currentUserIdRef,
                   trackingAllowedRef, savedMetrics, savedState, docStatus, violations,
                   histVars>>
    /\ SnapshotAlert(violations)
    /\ bgTaskRegistered' = (bg \/ bgTaskRegistered)
    /\ lastLocationWriteAt' = now
    /\ writeGap' = GapAt(now)
    /\ stopped' = FALSE
    /\ UNCHANGED <<branchVars, announcerVars, lastBackgroundViolationTime,
                   lastBackgroundZoneId, pendingVars, lastRecordWindow>>

\* ------------------------------------------------------------------------
\* Starting and stopping the watch, step by step
\* ------------------------------------------------------------------------
\* The snapshot handler receives the driver's document while no subscription
\* is live and calls startLocationWatch, which passes its two checks and
\* awaits the permissions and the initial position.
RequestStart ==
    /\ currentUserIdRef # NoUser
    /\ trackingAllowedRef
    /\ ~locationSubRef
    /\ pendingStart < MaxPending
    /\ userStatusRef' = docStatus
    /\ slowdownsRef' = loadBranchSlowdowns(Branches(docBranchId))
    /\ SnapshotAlert(violations)
    /\ pendingStart' = pendingStart + 1
    /\ pendingFixes' = pendingFixes
    /\ stopped' = FALSE
    /\ bgRun' = bgRun
    /\ UNCHANGED <<now, speed, location, topSpeed, totalDistance, avgSpeed,
                   subVars, watchTopSpeed, lastWriteTsRef, detectorRefs,
                   overspeedStartTimeRef, prevFixRef, shiftStartTimeRef, lastLocationRef,
                   speedReadingsRef, isTrackingMetricsRef, currentUserIdRef,
                   trackingAllowedRef, savedMetrics, savedState, docStatus, violations,
                   histVars, branchVars, announcerVars, bgVars, lastLocationWriteAt,
                   writeGap, lastRecordWindow>>

\* An awaiting startLocationWatch gets the initial position (devSpeed, coord)
\* and runs to its end: it checks neither trackingAllowedRef nor the user
\* again.  bg tells whether the background permission is granted.
CompleteStart(devSpeed, coord, bg) ==
    /\ pendingStart > 0
    /\ pendingStart' = pendingStart - 1
    /\ pendingFixes' = pendingFixes
    /\ bgRun' = bgRun
    /\ prevFixRef' = [coord |-> coord, ts |-> now]
    /\ speed' = calculateSpeedKmh([coord |-> coord, ts |-> now], devSpeed, coord, now)
    /\ location' = coord
    /\ locationSubRef' = TRUE
    /\ liveSubscriptions' = liveSubscriptions + 1
    /\ watchTopSpeed' = 0
    /\ bgTaskRegistered' = (bg \/ bgTaskRegistered)
    /\ lastLocationWriteAt' = now
    /\ writeGap' = GapAt(now)
    /\ IF currentUserIdRef # NoUser
       THEN /\ userStatusRef' = docStatus
            /\ slowdownsRef' = loadBranchSlowdowns(Branches(docBranchId))
            /\ SnapshotAlert(violations)
       ELSE UNCHANGED <<userStatusRef, slowdownsRef, alertVars>>
    /\ UNCHANGED <<now, topSpeed, totalDistance, avgSpeed, lastWriteTsRef, detectorRefs,
                   overspeedStartTimeRef, shiftStartTimeRef, lastLocationRef,
                   speedReadingsRef, isTrackingMetricsRef, currentUserIdRef,
                   trackingAllowedRef, savedMetrics, savedState, docStatus, violations,
                   histVars, branchVars, announcerVars, lastBackgroundViolationTime,
                   lastBackgroundZoneId, lastRecordWindow, stopped>>

\* onAuthStateChanged handler for no user: stopLocationWatch, the listener
\* unsubscribed, the user and two refs cleared.
AuthLogout ==
    /\ currentUserIdRef # NoUser
    /\ locationSubRef' = FALSE
    /\ liveSubscriptions' = (IF locationSubRef THEN liveSubscriptions - 1 ELSE liveSubscriptions)
    /\ bgTaskRegistered' = FALSE
    /\ currentUserIdRef' = NoUser
    /\ alertedViolationTimestampsRef' = {}
    /\ overspeedStartTimeRef' = 0
    /\ stopped' = TRUE
    /\ UNCHANGED <<now, speed, location, topSpeed, totalDistance, avgSpeed, watchTopSpeed,
                   lastWriteTsRef, slowdownsRef, detectorRefs, prevFixRef,
                   shiftStartTimeRef, lastLocationRef, speedReadingsRef,
                   isTrackingMetricsRef, userStatusRef, trackingAllowedRef, savedMetrics,
                   savedState, docStatus, violations, histVars, branchVars, announcerVars,
                   violationAlertUntil, prevViolationsCountRef,
                   lastBackgroundViolationTime, lastBackgroundZoneId, pendingVars,
                   lastLocationWriteAt, writeGap, lastRecordWindow>>

\* The pathname effect when the Login screen is shown: tracking and alerts
\* are disallowed and a live subscription is stopped.
LoginScreenShown ==
    /\ trackingAllowedRef
    /\ trackingAllowedRef' = FALSE
    /\ locationSubRef' = FALSE
    /\ liveSubscriptions' = (IF locationSubRef THEN liveSubscriptions - 1 ELSE liveSubscriptions)
    /\ bgTaskRegistered' = (IF locationSubRef THEN FALSE ELSE bgTaskRegistered)
    /\ stopped' = (locationSubRef \/ stopped)
    /\ UNCHANGED <<now, speed, location, topSpeed, totalDistance, avgSpeed, watchTopSpeed,
                   lastWriteTsRef, slowdownsRef, detectorRefs, overspeedStartTimeRef,
                   prevFixRef, shiftStartTimeRef, lastLocationRef, speedReadingsRef,
                   isTrackingMetricsRef, userStatusRef, currentUserIdRef, savedMetrics,
                   savedState, docStatus, violations, histVars, branchVars, announcerVars,
                   alertVars, lastBackgroundViolationTime, lastBackgroundZoneId,
                   pendingVars, lastLocationWriteAt, writeGap, lastRecordWindow>>

\* The pathname effect when another screen is shown: tracking and alerts are
\* allowed again and startLocationWatch is called for a logged-in user
\* without a subscription.
LoginScreenLeft ==
    LET starts == currentUserIdRef # NoUser /\ ~locationSubRef /\ pendingStart < MaxPending
    IN  /\ ~trackingAllowedRef
        /\ trackingAllowedRef' = TRUE
        /\ pendingStart' = IF starts THEN pendingStart + 1 ELSE pendingStart
        /\ pendingFixes' = pendingFixes
        /\ bgRun' = bgRun
        /\ stopped' = IF starts THEN FALSE ELSE stopped
        /\ UNCHANGED <<now, speed, location, topSpeed, totalDistance, avgSpeed,
                       subVars, watchTopSpeed, lastWriteTsRef, slowdownsRef,
                       detectorRefs, overspeedStartTimeRef, prevFixRef, shiftStartTimeRef,
                       lastLocationRef, speedReadingsRef, isTrackingMetricsRef,
                       userStatusRef, currentUserIdRef, savedMetrics, savedState,
                       docStatus, violations, histVars, branchVars, announcerVars,
                       alertVars, bgVars, lastLocationWriteAt, writeGap,
                       lastRecordWindow>>

\* ------------------------------------------------------------------------
\* The snapshot listener and its branch loads, step by step
\* ------------------------------------------------------------------------
\* The driver's document changes to status st and branch b and the listener
\* receives it while the watch is live: status, violation alert, then the
\* zones: an empty list at once for no branch, a load awaited otherwise.
BranchSnapshot(st, b) ==
    /\ currentUserIdRef # NoUser
    /\ locationSubRef
    /\ <<st, b>> # <<docStatus, docBranchId>>
    /\ Len(branchLoads) < MaxLoads
    /\ docStatus' = st
    /\ docBranchId' = b
    /\ userStatusRef' = st
    /\ SnapshotAlert(violations)
    /\ IF b = NoBranch
       THEN slowdownsRef' = <<>> /\ branchLoads' = branchLoads
       ELSE slowdownsRef' = slowdownsRef /\ branchLoads' = Append(branchLoads, b)
    /\ UNCHANGED <<now, speed, location, topSpeed, totalDistance, avgSpeed,
                   subVars, watchTopSpeed, lastWriteTsRef, lastViolationTsRef,
                   lastZoneViolationIdRef, overspeedStartTimeRef, prevFixRef,
                   shiftStartTimeRef, lastLocationRef, speedReadingsRef,
                   isTrackingMetricsRef, currentUserIdRef, trackingAllowedRef,
                   savedMetrics, savedState, violations, histVars, branchDoc,
                   announcerVars, bgVars, pendingVars, writeHist>>

\* The i-th load in flight completes and its handler assigns slowdownsRef
BranchLoaded(i) ==
    /\ i \in 1..Len(branchLoads)
    /\ slowdownsRef' = loadBranchSlowdowns(Branches(branchLoads[i]))
    /\ branchLoads' = [j \in 1..(Len(branchLoads) - 1) |->
                          IF j < i THEN branchLoads[j] ELSE branchLoads[j + 1]]
    /\ UNCHANGED <<now, speed, location, topSpeed, totalDistance, avgSpeed,
                   subVars, watchTopSpeed, lastWriteTsRef, lastViolationTsRef,
                   lastZoneViolationIdRef, overspeedStartTimeRef, prevFixRef,
                   shiftStartTimeRef, lastLocationRef, speedReadingsRef,
                   isTrackingMetricsRef, userStatusRef, currentUserIdRef,
                   trackingAllowedRef, savedMetrics, savedState, docStatus, violations,
                   histVars, branchDoc, docBranchId, announcerVars, alertVars, bgVars,
                   pendingVars, writeHist>>

\* ------------------------------------------------------------------------
\* The background location task
\* ------------------------------------------------------------------------
\* speedKmh of the task: Math.round(coords.speed * 3.6 * 1.12) for a positive
\* device speed, 0 otherwise
BackgroundKmh(devSpeed) == IF devSpeed > 0 THEN GpsKmh(devSpeed) ELSE 0

\* Index of the raw zone entry checkActiveZone returns, 0 for null
checkActiveZone(coord, raw) ==
    IF coord = Null \/ ~(\E i \in 1..Len(raw) : ZoneContains(raw[i], coord))
    THEN 0
    ELSE CHOOSE i \in 1..Len(raw) :
            /\ ZoneContains(raw[i], coord)
            /\ \A j \in 1..(i - 1) : ~ZoneContains(raw[j], coord)

\* zone.speedLimit || ZONE_DEFAULT_SPEEDS[zone.category] || DEFAULT_SPEED_LIMIT
\* added to 3 by the comparison of the task: a number is added, a numeric
\* string is concatenated with "3", and a string that is no number gives NaN,
\* written Null.
BackgroundThreshold(entry) ==
    LET v == entry.speedLimit
    IN  CASE v[1] = "number" /\ v[2] # 0 -> v[2] + 3
          [] v[1] = "string" -> v[2] * 10 + 3
          [] v[1] = "text" -> Null
          [] OTHER -> CategoryLimit(entry.category) + 3

\* speedKmh > speedLimit + 3 && speedKmh > MIN_SPEED_FOR_VIOLATION
BackgroundOverspeed(kmh, coord, raw) ==
    LET i == checkActiveZone(coord, raw)
        threshold == IF i = 0 THEN DEFAULT_SPEED_LIMIT + 3 ELSE BackgroundThreshold(raw[i])
    IN  threshold # Null /\ kmh > threshold /\ kmh > MIN_SPEED_FOR_VIOLATION

\* zone?.id ?? "default"
BackgroundZoneKey(coord, raw) ==
    LET i == checkActiveZone(coord, raw)
    IN  IF i = 0 THEN "default" ELSE raw[i].id

\* sameZone && now - lastBackgroundViolationTime < VIOLATION_COOLDOWN_MS
BackgroundCooldown(t, zoneKey) ==
    zoneKey = lastBackgroundZoneId /\ t - lastBackgroundViolationTime < VIOLATION_COOLDOWN_MS

\* The payload the task appends
BackgroundPayload(coord, raw, t) ==
    LET i == checkActiveZone(coord, raw)
    IN  [message |-> "Speeding violation (Background)",
         at |-> t,
         zoneKey |-> BackgroundZoneKey(coord, raw),
         zoneCategory |-> IF i = 0 THEN "Default" ELSE CategoryOf(raw[i]),
         zoneLimit |-> IF i = 0 THEN Null ELSE BackgroundThreshold(raw[i]) - 3]

\* The metrics the task stores from the stored ones
BackgroundMetrics(m, kmh, coord) ==
    LET readings == IF kmh > 0 THEN Append(m.speedReadings, kmh) ELSE m.speedReadings
        delta == IF m.lastLocationCoords = Null THEN Null
                 ELSE calculateDistanceMeters(m.lastLocationCoords, coord)
    IN  [topSpeed |-> Max(kmh, m.topSpeed),
         totalDistance |-> IF delta # Null /\ DistanceAccepted(delta)
                           THEN m.totalDistance + delta ELSE m.totalDistance,
         avgSpeed |-> calculateAverageSpeed(readings),
         shiftStartTime |-> m.shiftStartTime,
         speedReadings |-> readings,
         lastLocationCoords |-> coord]

\* The task from its read of the branch document to its end, for the location
\* (devSpeed, coord), the snapshot loaded it read from the durable store and
\* the branch id it read from the driver's document; the provider's listener
\* receives the task's writes of the driver's document.
BackgroundRun(devSpeed, coord, loaded, branchId) ==
    LET kmh == BackgroundKmh(devSpeed)
        zoneKey == BackgroundZoneKey(coord, Branches(branchId))
        over == BackgroundOverspeed(kmh, coord, Branches(branchId))
        records == over /\ ~BackgroundCooldown(now, zoneKey)
        appended == IF records
                    THEN Append(violations, BackgroundPayload(coord, Branches(branchId), now))
                    ELSE violations
    IN  /\ lastBackgroundViolationTime' = IF records THEN now ELSE lastBackgroundViolationTime
        /\ lastBackgroundZoneId' = IF records \/ ~over THEN zoneKey ELSE lastBackgroundZoneId
        /\ violations' = appended
        /\ savedMetrics' = IF loaded = <<>> THEN savedMetrics
                           ELSE << BackgroundMetrics(loaded[1], kmh, coord) >>
        /\ userStatusRef' = docStatus
        /\ slowdownsRef' = loadBranchSlowdowns(Branches(docBranchId))
        /\ SnapshotAlert(appended)
        /\ lastLocationWriteAt' = now
        /\ writeGap' = IF records THEN 0 ELSE GapAt(now)
        /\ lastRecordWindow' = IF records THEN WindowAt(now) ELSE lastRecordWindow
        /\ tick' = [NoTick EXCEPT !.kind = "background", !.at = now, !.devSpeed = devSpeed,
                                  !.zoneKey = zoneKey, !.status = docStatus]
        /\ UNCHANGED <<now, speed, location, topSpeed, totalDistance, avgSpeed,
                       subVars, watchTopSpeed, lastWriteTsRef, lastViolationTsRef,
                       lastZoneViolationIdRef, overspeedStartTimeRef, prevFixRef,
                       shiftStartTimeRef, lastLocationRef, speedReadingsRef,
                       isTrackingMetricsRef, currentUserIdRef, trackingAllowedRef,
                       savedState, docStatus, emissions, graceRun, overSince, lastDipAt,
                       speedsFed, topExpected, beforeRestart, branchVars, announcerVars,
                       bgTaskRegistered, startVars, stopped>>

\* The task passes its checks: background updates are started, the durable
\* store holds an active shift, a user is logged in and the driver's document
\* says Delivering.  The task handles one location between two fixes of the
\* watch, while the position watch of the provider is live.
BackgroundReady ==
    /\ bgTaskRegistered
    /\ currentUserIdRef # NoUser
    /\ locationSubRef
    /\ savedState # <<>>
    /\ savedState[1].isActive
    /\ docStatus = "Delivering"
    /\ tick.kind # "background"
    /\ bgRun = <<>>
    /\ pendingFixes = <<>>

\* The task handles one location (devSpeed, coord) at the current time, from
\* its reads to its end without anything in between.
BackgroundTask(devSpeed, coord) ==
    /\ BackgroundReady
    /\ BackgroundRun(devSpeed, coord, savedMetrics, docBranchId)
    /\ bgRun' = bgRun

\* The task reads the durable store and the driver's document for the
\* location (devSpeed, coord), passes its checks and awaits the branch document.
BackgroundLoad(devSpeed, coord) ==
    /\ BackgroundReady
    /\ bgRun' = << [devSpeed |-> devSpeed, coord |-> coord, metrics |-> savedMetrics,
                    branchId |-> docBranchId] >>
    /\ UNCHANGED <<now, memVars, savedMetrics, savedState, docStatus, violations,
                   histVars, branchVars, announcerVars, alertVars, bgVars, startVars,
                   writeHist>>

\* The awaiting run of the task gets the branch document and runs to its end
\* with what it read before.
BackgroundFinish ==
    /\ bgRun # <<>>
    /\ currentUserIdRef # NoUser
    /\ locationSubRef
    /\ BackgroundRun(bgRun[1].devSpeed, bgRun[1].coord, bgRun[1].metrics, bgRun[1].branchId)
    /\ bgRun' = <<>>

\* ------------------------------------------------------------------------
\* The shift specification: from the first launch through login, shifts,
\* fixes and restarts.
\* ------------------------------------------------------------------------
ShiftDeltas == {5000}
ShiftSpeeds == {0, 50, 100}
ShiftCoords == {0, 1, 500}
InitialSpeeds == {0}

FixShift ==
    \E dt \in ShiftDeltas, s \in ShiftSpeeds, c \in ShiftCoords :
        /\ now + dt <= StartTime + ShiftHorizon
        /\ Fix(dt, s, c, TRUE)

Login == AuthLogin(Driver)

FirstSnapshot == \E s \in InitialSpeeds, c \in ShiftCoords : OnSnapshot(s, c, FALSE)

Next ==
    \/ Login
    \/ FirstSnapshot
    \/ StartShift
    \/ StartDelivering
    \/ CancelShift
    \/ EndShift
    \/ FixShift
    \/ Restart

Spec == Init /\ [][Next]_vars

\* ------------------------------------------------------------------------
\* The estimator specification: a driver logged in and Offline, the watch
\* live, fixes with usable, unusable and implausible device speeds.
\* ------------------------------------------------------------------------
SpeedDeltas == {500, 1000, 10000}
SpeedSpeeds == {-10, 0, 3, 100, 550, 556}
SpeedCoords == {0, 1, 100, 700}

InitSpeed ==
    /\ now = StartTime
    /\ speed = 0
    /\ location = 0
    /\ topSpeed = 0
    /\ totalDistance = 0
    /\ avgSpeed = 0
    /\ locationSubRef = TRUE
    /\ liveSubscriptions = 1
    /\ watchTopSpeed = 0
    /\ lastWriteTsRef = 0
    /\ slowdownsRef = loadBranchSlowdowns(BranchZones)
    /\ lastViolationTsRef = 0
    /\ lastZoneViolationIdRef = NoZoneId
    /\ overspeedStartTimeRef = 0
    /\ prevFixRef = [coord |-> 0, ts |-> StartTime]
    /\ shiftStartTimeRef = 0
    /\ lastLocationRef = Null
    /\ speedReadingsRef = <<>>
    /\ isTrackingMetricsRef = FALSE
    /\ userStatusRef = "Offline"
    /\ currentUserIdRef = Driver
    /\ trackingAllowedRef = TRUE
    /\ savedMetrics = <<>>
    /\ savedState = <<>>
    /\ docStatus = "Offline"
    /\ violations = <<>>
    /\ branchDoc = BranchZones
    /\ currentSlowdownRef = NoZoneId
    /\ slowdownAlertUntil = 0
    /\ violationAlertUntil = 0
    /\ prevViolationsCountRef = 0
    /\ alertedViolationTimestampsRef = {}
    /\ lastBackgroundViolationTime = 0
    /\ lastBackgroundZoneId = NoZoneId
    /\ bgTaskRegistered = FALSE
    /\ pendingStart = 0
    /\ docBranchId = HomeBranch
    /\ branchLoads = <<>>
    /\ bgRun = <<>>
    /\ pendingFixes = <<>>
    /\ NoHistory

FixSpeed ==
    \E dt \in SpeedDeltas, s \in SpeedSpeeds, c \in SpeedCoords :
        /\ now + dt <= StartTime + SpeedHorizon
        /\ Fix(dt, s, c, TRUE)

NextSpeed == FixSpeed

SpecSpeed == InitSpeed /\ [][NextSpeed]_vars


\* ------------------------------------------------------------------------
\* A driver logged in on a device that holds no shift snapshot, the branch
\* document doc loaded, the remote status st, the watch live since an initial
\* fix at coord.
\* ------------------------------------------------------------------------
Watching(doc, st, coord) ==
    /\ now = StartTime
    /\ branchDoc = doc
    /\ speed = 0
    /\ location = coord
    /\ topSpeed = 0
    /\ totalDistance = 0
    /\ avgSpeed = 0
    /\ locationSubRef = TRUE
    /\ liveSubscriptions = 1
    /\ watchTopSpeed = 0
    /\ lastWriteTsRef = 0
    /\ slowdownsRef = loadBranchSlowdowns(doc)
    /\ lastViolationTsRef = 0
    /\ lastZoneViolationIdRef = NoZoneId
    /\ overspeedStartTimeRef = 0
    /\ prevFixRef = [coord |-> coord, ts |-> StartTime]
    /\ shiftStartTimeRef = 0
    /\ lastLocationRef = Null
    /\ speedReadingsRef = <<>>
    /\ isTrackingMetricsRef = FALSE
    /\ userStatusRef = st
    /\ currentUserIdRef = Driver
    /\ trackingAllowedRef = TRUE
    /\ savedMetrics = <<>>
    /\ savedState = <<>>
    /\ docStatus = st
    /\ violations = <<>>
    /\ currentSlowdownRef = NoZoneId
    /\ slowdownAlertUntil = 0
    /\ violationAlertUntil = 0
    /\ prevViolationsCountRef = 0
    /\ alertedViolationTimestampsRef = {}
    /\ lastBackgroundViolationTime = 0
    /\ lastBackgroundZoneId = NoZoneId
    /\ bgTaskRegistered = FALSE
    /\ pendingStart = 0
    /\ docBranchId = HomeBranch
    /\ branchLoads = <<>>
    /\ bgRun = <<>>
    /\ pendingFixes = <<>>
    /\ NoHistory

\* ------------------------------------------------------------------------
\* The zone specification: branch documents of two zones whose first entry
\* varies in category, admin limit, centre and radius and whose second entry
\* varies in centre and radius; the driver Delivering.
\* ------------------------------------------------------------------------
ZoneCategories ==
    {"Crosswalk", "School", "Schools", "Church", "Curve", "Slippery", "Slowdown",
     "Default", "Bridge", NoZoneId}
ZoneAdminLimits == {Unset, EmptyText, Text, Num(0), Num(-5), Num(25), Str(25)}

ZoneDocs ==
    { << [id |-> "A", category |-> c, loc |-> la, radius |-> ra, speedLimit |-> v],
         [id |-> "B", category |-> "Church", loc |-> lb, radius |-> rb,
          speedLimit |-> Num(30)] >> :
        c \in ZoneCategories, v \in ZoneAdminLimits, la \in {0, Null}, ra \in {Null, -20},
        lb \in {10, 300}, rb \in {0, 20} }

ZoneCoords == {0, 20, 300, 800}

InitZones == \E doc \in ZoneDocs : Watching(doc, "Delivering", 800)

FixZones ==
    \E c \in ZoneCoords :
        /\ now + 5000 <= StartTime + ZoneHorizon
        /\ Fix(5000, 87, c, TRUE)

NextZones == FixZones

SpecZones == InitZones /\ [][NextZones]_vars

\* ------------------------------------------------------------------------
\* The scenario specification: one School zone of radius 20 m without an
\* admin limit, the driver Delivering inside it, a fix every 3 s.
\* ------------------------------------------------------------------------
SchoolZone ==
    << [id |-> "S", category |-> "School", loc |-> 0, radius |-> 20, speedLimit |-> Unset] >>

ScenarioSpeeds == {30, 87}
ScenarioCoords == {0, 20, 21, 800}

InitScenario == Watching(SchoolZone, "Delivering", 0)

FixScenario ==
    \E s \in ScenarioSpeeds, c \in ScenarioCoords :
        /\ now + 3000 <= StartTime + ScenarioHorizon
        /\ Fix(3000, s, c, TRUE)

NextScenario == FixScenario

SpecScenario == InitScenario /\ [][NextScenario]_vars

\* ------------------------------------------------------------------------
\* The announcer specification: the two zones of the branch, a fix every
\* 3 s, the remote status changing between Offline and Delivering.
\* ------------------------------------------------------------------------
AnnouncerCoords == {0, 300, 800}

InitAnnouncer == Watching(BranchZones, "Delivering", 800)

FixAnnouncer ==
    \E c \in AnnouncerCoords :
        /\ now + 3000 <= StartTime + AnnouncerHorizon
        /\ Fix(3000, 87, c, TRUE)

SnapshotAnnouncer == \E st \in {"Offline", "Delivering"} : StatusSnapshot(st)

NextAnnouncer == FixAnnouncer \/ SnapshotAnnouncer

SpecAnnouncer == InitAnnouncer /\ [][NextAnnouncer]_vars

\* ------------------------------------------------------------------------
\* The background specification: from the first launch through login with
\* the background permission granted, the start of a delivery, fixes of the
\* watch in zone A one and a half or nine seconds apart and locations handled by the background
\* task.
\* ------------------------------------------------------------------------
BackgroundDeltas == {1500, 9000}
BackgroundSpeeds == {87}
BackgroundCoords == {0, 300}
BackgroundFixCoords == {0}

FixBackground ==
    \E dt \in BackgroundDeltas, s \in BackgroundSpeeds, c \in BackgroundFixCoords :
        /\ now + dt <= StartTime + BackgroundHorizon
        /\ Fix(dt, s, c, TRUE)

SnapshotBackground == \E c \in BackgroundCoords : OnSnapshot(0, c, TRUE)

TaskBackground ==
    \E s \in BackgroundSpeeds, c \in BackgroundCoords : BackgroundTask(s, c)

NextBackground ==
    \/ Login
    \/ SnapshotBackground
    \/ StartShift
    \/ StartDelivering
    \/ FixBackground
    \/ TaskBackground

SpecBackground == Init /\ [][NextBackground]_vars

\* ------------------------------------------------------------------------
\* The teardown specification: a driver logged in and Delivering, the watch
\* live; logout, login, the Login screen shown and left, starts of the watch
\* requested and completed separately, fixes three seconds apart.
\* ------------------------------------------------------------------------
TeardownCoords == {0, 800}

InitTeardown == Watching(BranchZones, "Delivering", 800)

FixTeardown ==
    \E c \in TeardownCoords :
        /\ now + 3000 <= StartTime + TeardownHorizon
        /\ Fix(3000, 87, c, TRUE)

StartTeardown ==
    \E c \in TeardownCoords :
        /\ liveSubscriptions < MaxSubscriptions
        /\ CompleteStart(0, c, FALSE)

NextTeardown ==
    \/ AuthLogout
    \/ Login
    \/ LoginScreenShown
    \/ LoginScreenLeft
    \/ RequestStart
    \/ StartTeardown
    \/ FixTeardown

SpecTeardown == InitTeardown /\ [][NextTeardown]_vars

\* ------------------------------------------------------------------------
\* The write-failure specification: the detector specification's driver in
\* and out of the School zone, the remote append of a violation succeeding
\* or failing.
\* ------------------------------------------------------------------------
FailureDeltas == {5000, 55000}
FailureCoords == {0, 800}

InitFailure == Watching(BranchZones, "Delivering", 800)

FixFailure ==
    \E dt \in FailureDeltas, c \in FailureCoords, ok \in BOOLEAN :
        /\ now + dt <= StartTime + FailureHorizon
        /\ Fix(dt, 87, c, ok)

NextFailure == FixFailure

SpecFailure == InitFailure /\ [][NextFailure]_vars

\* ------------------------------------------------------------------------
\* The branch specification: a driver logged in, the watch live; the
\* driver's document changes its status and its branch between two fixes, and
\* the loads of the listener complete in any order.
\* ------------------------------------------------------------------------
InitBranch == Watching(BranchZones, "Offline", 800)

SnapshotBranch ==
    \E st \in Statuses, b \in {HomeBranch, OtherBranch, NoBranch} : BranchSnapshot(st, b)

LoadedBranch == \E i \in 1..MaxLoads : BranchLoaded(i)

NextBranch == SnapshotBranch \/ LoadedBranch

SpecBranch == InitBranch /\ [][NextBranch]_vars

\* ------------------------------------------------------------------------
\* The store specification: from the first launch through login with the
\* background permission granted and a shift with fixes five seconds apart;
\* the background task reads and writes in two steps, so that fixes and the
\* end of the shift fall between them.
\* ------------------------------------------------------------------------
StoreCoords == {0, 300}

FixStore ==
    \E c \in StoreCoords :
        /\ now + 5000 <= StartTime + StoreHorizon
        /\ Fix(5000, 87, c, TRUE)

SnapshotStore == OnSnapshot(0, 0, TRUE)

LoadStore ==
    \E c \in StoreCoords :
        /\ Len(violations) < MaxRecords
        /\ BackgroundLoad(87, c)

NextStore ==
    \/ Login
    \/ SnapshotStore
    \/ StartShift
    \/ StartDelivering
    \/ EndShift
    \/ FixStore
    \/ LoadStore
    \/ BackgroundFinish

SpecStore == Init /\ [][NextStore]_vars

\* ------------------------------------------------------------------------
\* The watch callback in its two parts: the emitter does not wait for the
\* callback's promise, so a fix that arrives while an earlier callback awaits
\* its remote location write is handled at once.
\* ------------------------------------------------------------------------
\* The callback of a fix that writes to the remote document, up to the await
\* of updateDoc
FixHead(dt, devSpeed, coord) ==
    LET t == now + dt
        kmh == calculateSpeedKmh(prevFixRef, devSpeed, coord, t)
        active == ShiftActive
        reading == active /\ IsReading(kmh)
        readings == IF reading THEN Append(speedReadingsRef, kmh) ELSE speedReadingsRef
        delta == IF lastLocationRef = Null THEN Null
                 ELSE calculateDistanceMeters(lastLocationRef, coord)
        accepted == active /\ delta # Null /\ DistanceAccepted(delta)
        listening == currentUserIdRef # NoUser
    IN  /\ locationSubRef
        /\ ShouldWriteToFirestore(t, lastWriteTsRef)
        /\ Len(pendingFixes) < MaxPendingFixes
        /\ now' = t
        /\ prevFixRef' = [coord |-> coord, ts |-> t]
        /\ speed' = kmh
        /\ location' = coord
        /\ topSpeed' = IF active /\ IsNewTopSpeed(kmh, watchTopSpeed) THEN kmh ELSE topSpeed
        /\ speedReadingsRef' = readings
        /\ avgSpeed' = IF reading THEN calculateAverageSpeed(readings) ELSE avgSpeed
        /\ totalDistance' = IF accepted THEN totalDistance + delta ELSE totalDistance
        /\ savedMetrics' =
             IF accepted
             THEN << StoredMetrics([topSpeed |-> Max(kmh, watchTopSpeed),
                                    totalDistance |-> totalDistance + delta,
                                    avgSpeed |-> calculateAverageSpeed(readings),
                                    shiftStartTime |-> shiftStartTimeRef,
                                    speedReadings |-> readings,
                                    lastLocationCoords |-> coord]) >>
             ELSE savedMetrics
        /\ lastLocationRef' = IF active THEN coord ELSE lastLocationRef
        /\ lastWriteTsRef' = t
        /\ pendingFixes' = Append(pendingFixes, [kmh |-> kmh, coord |-> coord, at |-> t])
        /\ slowdownAlertUntil' = Pending(slowdownAlertUntil, t)
        /\ violationAlertUntil' =
             IF listening
             THEN Pending(ListenerFlagUntil(t, violationAlertUntil, violations), t)
             ELSE Pending(violationAlertUntil, t)
        /\ alertedViolationTimestampsRef' =
             IF listening THEN ListenerKeys(t, violationAlertUntil, violations)
             ELSE alertedViolationTimestampsRef
        /\ prevViolationsCountRef' =
             IF listening THEN Len(violations) ELSE prevViolationsCountRef
        /\ lastLocationWriteAt' = t
        /\ writeGap' = GapAt(t)
        /\ speedsFed' = IF active THEN Append(speedsFed, kmh) ELSE speedsFed
        /\ topExpected' = IF active THEN Max(topExpected, kmh) ELSE topExpected
        /\ beforeRestart' = NoMetrics
        /\ UNCHANGED <<subVars, watchTopSpeed, slowdownsRef, shiftStartTimeRef,
                       isTrackingMetricsRef, userStatusRef, currentUserIdRef,
                       trackingAllowedRef, savedState, docStatus, branchVars, bgVars,
                       pendingStart, bgRun, stopped, overspeedStartTimeRef,
                       lastViolationTsRef, lastZoneViolationIdRef, violations,
                       currentSlowdownRef, lastRecordWindow, emissions, tick,
                       graceRun, overSince, lastDipAt>>

\* The rest of that callback once updateDoc has resolved: the zone transition
\* and checkAndLogOverspeed with the speed and the position of its own fix, at
\* the time it resumes.  tick.at is the arrival time of the fix evaluated.
FixTail(ok) ==
    LET fix == Head(pendingFixes)
        t == now
        kmh == fix.kmh
        coord == fix.coord
        zoneKey == ZoneKeyAt(coord, slowdownsRef)
        limit == LimitAt(coord, slowdownsRef)
        outcome == DetectorOutcome(userStatusRef, kmh, limit, overspeedStartTimeRef, t,
                                   lastViolationTsRef, lastZoneViolationIdRef, zoneKey)
        over == Overspeeding(userStatusRef, kmh, limit)
        free == CooldownFree(emissions, zoneKey, t)
        newZoneId == ZoneIdAt(coord, slowdownsRef)
        transition == SlowdownTransition(userStatusRef, alertsEnabledRef,
                                         currentSlowdownRef, newZoneId)
        speaks == SpeaksTransition(transition, t)
        warns == SpeaksWarning(outcome = "emit", t)
        warnedUntil == IF warns THEN t + SAFE_SPEAK_DELAY_MS + VIOLATION_ALERT_MS
                       ELSE violationAlertUntil
        appended == IF outcome = "emit" /\ ok
                    THEN Append(violations, ViolationPayload(coord, slowdownsRef, t))
                    ELSE violations
        listening == currentUserIdRef # NoUser
    IN  /\ pendingFixes # <<>>
        /\ pendingFixes' = Tail(pendingFixes)
        /\ overspeedStartTimeRef' = StartAfter(outcome, overspeedStartTimeRef, t)
        /\ lastViolationTsRef' = IF outcome = "emit" THEN t ELSE lastViolationTsRef
        /\ lastZoneViolationIdRef' = IF outcome = "emit" THEN zoneKey
                                     ELSE lastZoneViolationIdRef
        /\ violations' = appended
        /\ currentSlowdownRef' = SlowdownAfter(transition, currentSlowdownRef, newZoneId)
        /\ slowdownAlertUntil' = IF speaks THEN SlowdownBusyUntil(transition, t)
                                 ELSE Pending(slowdownAlertUntil, t)
        /\ violationAlertUntil' = Pending(warnedUntil, t)
        /\ prevViolationsCountRef' =
             IF listening /\ appended # violations THEN Len(appended)
             ELSE prevViolationsCountRef
        /\ lastRecordWindow' = IF appended # violations THEN WindowAt(t)
                               ELSE lastRecordWindow
        /\ emissions' = IF outcome = "emit"
                        THEN Append(emissions, [zoneKey |-> zoneKey, at |-> t])
                        ELSE emissions
        /\ tick' = [NoTick EXCEPT !.kind = "fix", !.at = fix.at, !.over = over,
                                  !.zoneKey = zoneKey, !.outcome = outcome,
                                  !.emitted = IF outcome = "emit" THEN 1 ELSE 0,
                                  !.elapsed = RunElapsed(graceRun, over, t),
                                  !.cooldownFree = free, !.status = userStatusRef,
                                  !.prevZone = currentSlowdownRef, !.zoneId = newZoneId,
                                  !.announced = transition, !.spoke = speaks,
                                  !.warned = IF warns THEN 1 ELSE 0, !.wrote = TRUE,
                                  !.failed = (outcome = "emit" /\ ~ok)]
        /\ graceRun' = RunAfter(graceRun, over, t, free)
        /\ overSince' = IF ~over THEN 0 ELSE IF overSince = 0 THEN t ELSE overSince
        /\ lastDipAt' = IF over THEN lastDipAt
                        ELSE IF overSince # 0 /\ t - overSince < OVERSPEED_GRACE_PERIOD_MS
                        THEN t ELSE 0
        /\ UNCHANGED <<now, prevFixRef, speed, location, topSpeed, speedReadingsRef,
                       avgSpeed, totalDistance, savedMetrics, lastLocationRef,
                       lastWriteTsRef, alertedViolationTimestampsRef,
                       lastLocationWriteAt, writeGap, speedsFed, topExpected,
                       beforeRestart, subVars, watchTopSpeed, slowdownsRef,
                       shiftStartTimeRef, isTrackingMetricsRef, userStatusRef,
                       currentUserIdRef, trackingAllowedRef, savedState, docStatus,
                       branchVars, bgVars, pendingStart, bgRun, stopped>>

\* The callback of a fix that does not write: nothing is awaited before
\* checkAndLogOverspeed
FixDirect(dt, devSpeed, coord) ==
    /\ ~ShouldWriteToFirestore(now + dt, lastWriteTsRef)
    /\ Fix(dt, devSpeed, coord, TRUE)

\* ------------------------------------------------------------------------
\* The order specification: a delivering driver, fixes one and a half or five
\* seconds apart, standing or at 35 km/h, the remote write of a fix resolving
\* at any later moment.
\* ------------------------------------------------------------------------
OrderDeltas == {1500, 5000}
OrderSpeeds == {0, 87}
OrderCoords == {0, 300}

InitOrder == Watching(BranchZones, "Delivering", 800)

HeadOrder ==
    \E dt \in OrderDeltas, s \in OrderSpeeds, c \in OrderCoords :
        /\ now + dt <= StartTime + OrderHorizon
        /\ FixHead(dt, s, c)

DirectOrder ==
    \E dt \in OrderDeltas, s \in OrderSpeeds, c \in OrderCoords :
        /\ now + dt <= StartTime + OrderHorizon
        /\ FixDirect(dt, s, c)

TailOrder == FixTail(TRUE)

NextOrder == HeadOrder \/ DirectOrder \/ TailOrder

SpecOrder == InitOrder /\ [][NextOrder]_vars

\* ------------------------------------------------------------------------
\* The continuous-infraction specification: the status stays Delivering and
\* every fix is inside the Church zone (limit 30) at 35 km/h, five or twenty
\* seconds after the one before.  The location service keeps
\* delivering fixes, so the fix step is weakly fair.
\* ------------------------------------------------------------------------
LiveDeltas == {5000, 20000}
LiveSpeeds == {87}
LiveCoords == {300, 310}

InitLive == Watching(BranchZones, "Delivering", 300)

FixLive ==
    \E dt \in LiveDeltas, s \in LiveSpeeds, c \in LiveCoords :
        /\ now + dt <= StartTime + LiveHorizon
        /\ Fix(dt, s, c, TRUE)

NextLive == FixLive

SpecLive == InitLive /\ [][NextLive]_vars /\ WF_vars(FixLive)

\* ------------------------------------------------------------------------
\* The drivers specification: two drivers use the device one after the other
\* within one lifetime of the provider; login, logout, shifts and fixes five
\* seconds apart.  docStatus and violations are the document of the driver
\* who is logged in; the other driver's document is taken to say the same.
\* ------------------------------------------------------------------------
DriversCoords == {0, 300}

LoginDrivers == \E uid \in {Driver, OtherDriver} : AuthLogin(uid)

SnapshotDrivers == OnSnapshot(0, 0, FALSE)

FixDrivers ==
    \E c \in DriversCoords :
        /\ now + 5000 <= StartTime + DriversHorizon
        /\ Fix(5000, 87, c, TRUE)

NextDrivers ==
    \/ LoginDrivers
    \/ SnapshotDrivers
    \/ StartShift
    \/ StartDelivering
    \/ AuthLogout
    \/ FixDrivers

SpecDrivers == Init /\ [][NextDrivers]_vars

\* ------------------------------------------------------------------------
\* Claims
\* ------------------------------------------------------------------------
\* A step that handles a fix: only the watch callback advances the clock.
FixStep == now' # now

LastEmission == emissions[Len(emissions)]

\* C1: in a run of consecutive overspeeding ticks that starts from Idle, no
\* violation is emitted on a tick less than 10,000 ms after the run's first
\* tick, and exactly one is emitted on the first tick that is 10,000 ms or
\* more after it, unless an earlier emission for the same zone key is less
\* than a cooldown old.
C1_GracePeriod ==
    (tick.kind = "fix" /\ tick.over /\ tick.elapsed # Null) =>
        /\ tick.elapsed < OVERSPEED_GRACE_PERIOD_MS => tick.emitted = 0
        /\ (tick.elapsed >= OVERSPEED_GRACE_PERIOD_MS /\ tick.cooldownFree)
               => tick.emitted = 1

\* C1 witness: a violation emitted on the tick exactly 10,000 ms after the
\* first overspeeding tick, an earlier tick of the run having emitted none.
C1_Witness ==
    /\ tick.kind = "fix"
    /\ tick.over
    /\ tick.elapsed = OVERSPEED_GRACE_PERIOD_MS
    /\ tick.emitted = 1
    /\ tick.at - overSince = OVERSPEED_GRACE_PERIOD_MS

\* C2 (as claimed): any two violation records of the remote record that carry
\* the same zone key are at least 60,000 ms apart.
C2_PerZoneCooldown ==
    \A i, j \in 1..Len(violations) :
        (/\ i < j
         /\ violations[i].message = "Speeding violation"
         /\ violations[j].message = "Speeding violation"
         /\ violations[i].zoneKey = violations[j].zoneKey)
            => violations[j].at - violations[i].at >= VIOLATION_COOLDOWN_MS

\* C3: on a tick where the grace period has elapsed while still overspeeding,
\* the emission is suppressed exactly when the last emitted violation is less
\* than 60,000 ms old and has the tick's zone key; otherwise a violation is
\* emitted and the last-emission time and zone key become the tick's.
C3_CooldownRule ==
    [][ (FixStep /\ tick'.over /\ overspeedStartTimeRef # 0
           /\ now' - overspeedStartTimeRef >= OVERSPEED_GRACE_PERIOD_MS)
        => IF /\ emissions # <<>>
              /\ now' - LastEmission.at < VIOLATION_COOLDOWN_MS
              /\ tick'.zoneKey = LastEmission.zoneKey
           THEN /\ emissions' = emissions
                /\ violations' = violations
                /\ lastViolationTsRef' = lastViolationTsRef
                /\ lastZoneViolationIdRef' = lastZoneViolationIdRef
           ELSE /\ emissions' = Append(emissions, [zoneKey |-> tick'.zoneKey, at |-> now'])
                /\ Len(violations') = Len(violations) + 1
                /\ lastViolationTsRef' = now'
                /\ lastZoneViolationIdRef' = tick'.zoneKey ]_vars

\* C3 witness: a confirmation suppressed by the cooldown after an emission in
\* the same zone, and a second record for that zone 60,000 ms after the first.
C3_Witness ==
    /\ Len(emissions) = 2
    /\ emissions[1].zoneKey = emissions[2].zoneKey
    /\ emissions[2].at - emissions[1].at = VIOLATION_COOLDOWN_MS
    /\ tick.emitted = 1
    /\ tick.elapsed = Null

\* C4: a tick that is not overspeeding discards the grace start; the next
\* overspeeding tick starts the grace period at its own time; and a violation
\* is emitted no earlier than 10,000 ms after the first overspeeding tick that
\* followed the last tick that was not.
C4_IdempotentReset ==
    tick.kind = "fix" =>
        /\ ~tick.over => overspeedStartTimeRef = 0
        /\ (tick.over /\ overSince = tick.at) => overspeedStartTimeRef = tick.at
        /\ tick.emitted = 1 => tick.at - overSince >= OVERSPEED_GRACE_PERIOD_MS

\* C4 witness: a grace period was discarded 5,000 ms into it, the driver was
\* overspeeding again on the next tick, and the violation came 10,000 ms
\* after that tick.
C4_Witness ==
    /\ tick.kind = "fix"
    /\ tick.emitted = 1
    /\ lastDipAt # 0
    /\ overSince = lastDipAt + 5000
    /\ tick.at - overSince = OVERSPEED_GRACE_PERIOD_MS
    /\ emissions = << [zoneKey |-> tick.zoneKey, at |-> tick.at] >>

\* a is n/d rounded as Math.round does: a - 1/2 <= n/d < a + 1/2.
IsRounded(a, n, d) == 2 * d * a - d <= 2 * n /\ 2 * n < 2 * d * a + d

\* The rounded mean of a reading history, 0 for an empty one.
IsRoundedMean(a, readings) ==
    IF readings = <<>> THEN a = 0
    ELSE IsRounded(a, SumSeq(readings), Len(readings))

\* C5 (as claimed): while a shift is active, topSpeed equals the largest speed
\* estimate produced since initializeShiftMetrics, or since the restored
\* snapshot's value.
C5_TopSpeedRunningMax == ShiftActive => topSpeed = topExpected

C8_CrashRecoveryRoundTrip == tick.kind = "restore" => MemoryMetrics = beforeRestart

\* C9 (as claimed): the speed estimate of every fix is an integer in 0..199.
C9_EstimateBelow200 == speed \in 0..199

\* The estimate of a fix with device speed s (tenths of m/s), d metres and ms
\* milliseconds (at least 1,000) from the previous fix, by the rule as
\* claimed: the corrected device speed if s is positive, the derived speed
\* otherwise.
ClaimedEstimate(a, s, d, ms) ==
    IF s > 0 THEN IsRounded(a, s * 4032, 10000)
    ELSE IsRounded(a, d * 3600, ms)

\* C10 (as claimed): a fix with a positive device speed s yields
\* round(s * 3.6 * 1.12), any other fix yields round(d / max(1, dt) * 3.6),
\* and the previous-fix memory becomes the fix.
C10_AsClaimed ==
    [][ FixStep =>
          /\ ClaimedEstimate(speed', tick'.devSpeed, Abs(location' - prevFixRef.coord),
                             Max(1000, now' - prevFixRef.ts))
          /\ prevFixRef' = [coord |-> location', ts |-> now'] ]_vars

\* The rule with the plausibility guard and the floor: the corrected device
\* speed if s is positive and under 200 km/h before the correction; otherwise
\* the derived speed if it is under 200 km/h; otherwise 0; and an estimate
\* under 2 km/h is reported as 0.
GuardedEstimate(a, s, d, ms) ==
    \E cand \in 0..300 :
        /\ IF s > 0 /\ s * 36 < 200 * 100
           THEN IsRounded(cand, s * 4032, 10000)
           ELSE IF d * 3600 < 200 * ms
           THEN IsRounded(cand, d * 3600, ms)
           ELSE cand = 0
        /\ a = IF cand < 2 THEN 0 ELSE cand

\* C10 (amended): a fix with a positive device speed s under 200 km/h yields
\* round(s * 3.6 * 1.12); any other fix yields round(d / max(1, dt) * 3.6) if
\* that is under 200 km/h and 0 if not; a result under 2 km/h is reported as
\* 0; and the previous-fix memory becomes the fix.
C10_SpeedEstimationRule ==
    [][ FixStep =>
          /\ GuardedEstimate(speed', tick'.devSpeed, Abs(location' - prevFixRef.coord),
                             Max(1000, now' - prevFixRef.ts))
          /\ prevFixRef' = [coord |-> location', ts |-> now'] ]_vars

\* C10 witness: a fix without device speed, 100 m and 10 s after the fix
\* before it, estimated at 36 km/h and remembered as the previous fix.
C10_Witness ==
    /\ tick.kind = "fix"
    /\ tick.devSpeed = 0
    /\ tick.at = StartTime + 10000
    /\ location = 100
    /\ speed = 36
    /\ prevFixRef = [coord |-> 100, ts |-> tick.at]

\* The id of the first entry of the branch document, from entry i on, whose
\* centre is valid and lies within its radius of coord, the radius being 15 m
\* when it is unset or not positive; NoZoneId when there is none.
RECURSIVE FirstMatchFrom(_, _, _)
FirstMatchFrom(i, coord, doc) ==
    IF i > Len(doc) THEN NoZoneId
    ELSE LET r == IF doc[i].radius = Null \/ doc[i].radius <= 0 THEN 15 ELSE doc[i].radius
         IN  IF doc[i].loc # Null /\ Abs(coord - doc[i].loc) <= r
             THEN doc[i].id
             ELSE FirstMatchFrom(i + 1, coord, doc)

\* C11: on every fix the zone resolved is the first zone in load order whose
\* centre is valid and within its radius (15 m when unset or not positive) of
\* the fix, null when there is none; the announcer's call and the detector's
\* call of the same fix return the same zone.
C11_FirstMatchWins ==
    tick.kind = "fix" =>
        LET first == FirstMatchFrom(1, location, branchDoc)
        IN  /\ tick.zoneId = first
            /\ tick.zoneKey = (IF first = NoZoneId THEN "default" ELSE first)
            /\ currentSlowdownRef = first

\* C11 witness: two zones contain the fix and the first one was resolved.
C11_Witness ==
    /\ tick.kind = "fix"
    /\ location = 0
    /\ ZoneContains(slowdownsRef[1], 0)
    /\ ZoneContains(slowdownsRef[2], 0)
    /\ tick.zoneId = "A"
    /\ currentSlowdownRef = "A"

\* The default of a category: the table, and 60 for any other category.
ClaimedCategoryDefault(category) ==
    CASE category = "Crosswalk" -> 15
      [] category \in {"School", "Schools"} -> 20
      [] category = "Church" -> 30
      [] category \in {"Curve", "Slippery", "Slowdown"} -> 40
      [] OTHER -> 60

\* The admin value when it is a positive number, else the category default.
ClaimedLimit(entry) ==
    IF entry.speedLimit[1] \in {"number", "string"} /\ entry.speedLimit[2] > 0
    THEN entry.speedLimit[2]
    ELSE ClaimedCategoryDefault(entry.category)

\* C12: the limit of every loaded zone is the admin value when that is a
\* positive number, otherwise the category default, otherwise 60; it is
\* strictly positive, and so is the limit of the zone resolved at any
\* coordinate, which is the loaded one.
C12_LimitFallbackChain ==
    /\ Len(slowdownsRef) = Len(branchDoc)
    /\ \A i \in 1..Len(branchDoc) :
          /\ slowdownsRef[i].speedLimit = ClaimedLimit(branchDoc[i])
          /\ slowdownsRef[i].speedLimit > 0
    /\ \A c \in ZoneCoords :
          LET i == checkActiveZoneWithDetails(c, slowdownsRef)
          IN  /\ LimitAt(c, slowdownsRef) > 0
              /\ i # 0 => LimitAt(c, slowdownsRef) = ClaimedLimit(branchDoc[i])

\* C12 witness: a Crosswalk zone whose admin limit is no number was loaded
\* with limit 15 and resolved for a fix inside it.
C12_Witness ==
    /\ tick.kind = "fix"
    /\ tick.zoneId = "A"
    /\ branchDoc[1].category = "Crosswalk"
    /\ branchDoc[1].speedLimit = Text
    /\ slowdownsRef[1].speedLimit = 15
    /\ LimitAt(location, slowdownsRef) = 15

\* The "Speeding violation" records of the remote record
SpeedingRecords == SelectSeq(violations, LAMBDA v : v.message = "Speeding violation")

\* C13: when every fix since the first one, 3 s apart, is at 35 km/h inside
\* the School zone under status Delivering, no violation is recorded on a fix
\* less than 10 s after the first, and after the fix at 12 s exactly one is
\* recorded, with category School and limit 20, on a fix 10 s or more after
\* the first.
C13_EndToEnd ==
    (tick.kind = "fix" /\ tick.over /\ overSince = StartTime + 3000) =>
        /\ tick.at < overSince + 10000 => SpeedingRecords = <<>>
        /\ tick.at = overSince + 12000 =>
              /\ Len(SpeedingRecords) = 1
              /\ SpeedingRecords[1].zoneCategory = "School"
              /\ SpeedingRecords[1].zoneLimit = 20
              /\ SpeedingRecords[1].at >= overSince + 10000

\* C13 witness: five fixes at 35 km/h inside the zone, the violation recorded
\* on the fifth, 12 s after the first.
C13_Witness ==
    /\ tick.kind = "fix"
    /\ tick.over
    /\ speed = 35
    /\ overSince = StartTime + 3000
    /\ tick.at = overSince + 12000
    /\ Len(violations) = 1
    /\ violations[1].at = tick.at
    /\ violations[1].zoneLimit = 20

\* C14 (as claimed): on every fix an entering announcement is fired exactly
\* when the resolved zone is non-null and differs from the recorded one, a
\* leaving announcement exactly when the resolved zone is null and the
\* recorded one is not, nothing is announced in steady state, and after the
\* fix the recorded zone is the resolved one.
C14_AsClaimed ==
    [][ FixStep =>
          LET new == FirstMatchFrom(1, location', branchDoc)
              prev == currentSlowdownRef
          IN  /\ (tick'.announced = "entering") <=> (new # NoZoneId /\ new # prev)
              /\ (tick'.announced = "leaving") <=> (new = NoZoneId /\ prev # NoZoneId)
              /\ new = prev => (tick'.announced = "none" /\ currentSlowdownRef' = prev)
              /\ currentSlowdownRef' = new ]_vars

\* C14 (amended): on a fix handled while the status is Delivering and alerts
\* are enabled the transitions are taken as claimed and the recorded zone
\* becomes the resolved one, the announcement being spoken unless the
\* announcer is busy; on a fix handled under any other status nothing is
\* announced and the recorded zone is unchanged.
C14_EdgeTriggering ==
    [][ FixStep =>
          LET new == FirstMatchFrom(1, location', branchDoc)
              prev == currentSlowdownRef
              busy == slowdownAlertUntil > now'
          IN  IF userStatusRef = "Delivering" /\ trackingAllowedRef
              THEN /\ (tick'.announced = "entering") <=> (new # NoZoneId /\ new # prev)
                   /\ (tick'.announced = "leaving") <=> (new = NoZoneId /\ prev # NoZoneId)
                   /\ new = prev => tick'.announced = "none"
                   /\ currentSlowdownRef' = new
                   /\ tick'.spoke <=> (tick'.announced # "none" /\ ~busy)
              ELSE /\ tick'.announced = "none"
                   /\ ~tick'.spoke
                   /\ currentSlowdownRef' = prev ]_vars

\* C14 witness: the driver went from zone A straight into zone B 3 s later;
\* the entering transition was taken while the announcer was still busy.
C14_Witness ==
    /\ tick.kind = "fix"
    /\ tick.status = "Delivering"
    /\ tick.prevZone = "A"
    /\ tick.zoneId = "B"
    /\ tick.announced = "entering"
    /\ ~tick.spoke
    /\ currentSlowdownRef = "B"

\* C15: any two remote writes of the driver's location (the initial write of
\* startLocationWatch, the writes of the watch callback, the writes of the
\* background task) are at least 2,000 ms apart.
C15_WriteThrottle == writeGap = Null \/ writeGap >= WRITE_THROTTLE_MS

\* The part of C15 that holds: the speed and the location in memory are those
\* of the last fix, whether or not the fix was written.
C15_MemoryEveryFix ==
    tick.kind = "fix" => (location = prevFixRef.coord /\ prevFixRef.ts = tick.at)

\* C17: no speeding record, of the foreground detector or of the background
\* task, is appended to the driver's remote record unless the driver had been
\* overspeeding on every tick of a window of at least 10,000 ms that ends at
\* the recording tick.
C17_RecordsAfterGrace ==
    lastRecordWindow = Null \/ lastRecordWindow >= OVERSPEED_GRACE_PERIOD_MS

\* C20: every violation emitted by checkAndLogOverspeed triggers exactly one
\* spoken overspeed warning and no warning is spoken without an emission,
\* also while the alerting flag is still set.
C20_WarningPerEmission == tick.kind = "fix" => tick.warned = tick.emitted

\* C18: on every tick on which the status is not Delivering, or the speed is
\* below 5 km/h, or the speed is not above the applicable limit, the detector
\* ends with no grace start recorded, no record is written, no warning is
\* spoken and the time and zone key of the last emission are unchanged.
C18_SilentReset ==
    [][ (FixStep /\ ~tick'.over) =>
          /\ overspeedStartTimeRef' = 0
          /\ violations' = violations
          /\ tick'.emitted = 0
          /\ tick'.warned = 0
          /\ UNCHANGED <<lastViolationTsRef, lastZoneViolationIdRef>> ]_vars

\* C18 witness: a tick that was not overspeeding met a running grace period
\* and a cooldown state left by an earlier emission, and kept the latter.
C18_Witness ==
    /\ tick.kind = "fix"
    /\ ~tick.over
    /\ lastDipAt = tick.at
    /\ overspeedStartTimeRef = 0
    /\ emissions # <<>>
    /\ lastViolationTsRef = LastEmission.at
    /\ lastZoneViolationIdRef = LastEmission.zoneKey

\* C19: after every tick on which the recorded grace period has elapsed while
\* the driver is still overspeeding, no grace start is recorded, whether the
\* violation was emitted or suppressed by the cooldown rule.
C19_ConfirmedTransient ==
    [][ ( /\ FixStep
          /\ tick'.over
          /\ overspeedStartTimeRef # 0
          /\ now' - overspeedStartTimeRef >= OVERSPEED_GRACE_PERIOD_MS )
        => overspeedStartTimeRef' = 0 ]_vars

\* The part of C19 that holds: the grace start is cleared when the violation
\* is emitted.
C19_ClearedOnEmission ==
    (tick.kind = "fix" /\ tick.emitted = 1) => overspeedStartTimeRef = 0

\* C16: once stopLocationWatch has run for a logout or for the Login screen
\* and no start was requested since, no position subscription is live, so no
\* further fix is processed.
C16_Teardown == stopped => ~locationSubRef

\* C21: a fix that emits a violation leaves the detector in the same state
\* whether the remote append succeeded or failed (time and zone key of the
\* last emission updated, grace start cleared); a failed append adds no
\* record, then or on a later fix that does not emit; the watch stays live.
C21_BestEffortWrite ==
    [][ FixStep =>
          /\ tick'.emitted = 1 =>
               /\ lastViolationTsRef' = now'
               /\ lastZoneViolationIdRef' = tick'.zoneKey
               /\ overspeedStartTimeRef' = 0
          /\ (tick'.emitted = 0 \/ tick'.failed) => violations' = violations
          /\ (tick'.emitted = 1 /\ ~tick'.failed) => Len(violations') = Len(violations) + 1
          /\ locationSubRef' ]_vars

\* C21 witness: the only emission so far failed to be written, and a later
\* fix in the same zone, past its own grace period, was suppressed by the
\* cooldown that emission started.
C21_Witness ==
    /\ tick.kind = "fix"
    /\ tick.outcome = "suppressed"
    /\ Len(emissions) = 1
    /\ violations = <<>>
    /\ lastViolationTsRef = emissions[1].at
    /\ tick.zoneKey = emissions[1].zoneKey

\* C22: while the driver's status is not Delivering, that is from a shift
\* button that ran resetDrivingMetrics (or from the first launch) until the
\* next initializeShiftMetrics, no fix changes topSpeed, totalDistance,
\* avgSpeed, the reading history or the last metrics location, and no fix
\* writes a snapshot to the durable store.
C22_MetricsOnlyInShift ==
    [][ (FixStep /\ docStatus # "Delivering") =>
          UNCHANGED <<topSpeed, totalDistance, avgSpeed, speedReadingsRef,
                      lastLocationRef, savedMetrics>> ]_vars

\* C22 witness: a shift with a reading was ended, and a moving fix was
\* handled afterwards without leaving a trace in the metrics.
C22_Witness ==
    /\ tick.kind = "fix"
    /\ docStatus = "Offline"
    /\ \E i \in 1..Len(violations) : violations[i].message = "Shift completed"
    /\ speed > 0
    /\ ~tick.active
    /\ topSpeed = 0
    /\ speedReadingsRef = <<>>
    /\ lastLocationRef = Null
    /\ savedMetrics = <<>>

\* C23: a zone announcement is spoken only while no other one is in flight
\* and sets the busy flag for 4 s (entering) or 2.5 s (leaving) after the
\* speech was handed over; a transition met with the busy flag set updates
\* the recorded zone, is not spoken, neither then nor on a later fix while the
\* driver stays there, and leaves the flag's deadline alone; the flag is never
\* set for longer than that and its deadline is never moved while it is set.
C23_NoOverlapNoQueue ==
    [][ FixStep =>
          LET busy == slowdownAlertUntil > now'
          IN  /\ tick'.spoke => ~busy
              /\ tick'.spoke =>
                   slowdownAlertUntil' = now' + SAFE_SPEAK_DELAY_MS
                       + (IF tick'.announced = "entering" THEN ENTER_ALERT_MS
                          ELSE LEAVE_ALERT_MS)
              /\ (tick'.announced \in {"entering", "leaving"} /\ busy) =>
                   /\ ~tick'.spoke
                   /\ currentSlowdownRef' = tick'.zoneId
              /\ tick'.skipped # "none" => ~tick'.spoke
              /\ busy => slowdownAlertUntil' = slowdownAlertUntil
              /\ ~tick'.spoke => slowdownAlertUntil' \in {0, slowdownAlertUntil} ]_vars

\* C23 witness: the entry into zone B was met with the busy flag of the
\* announcement for zone A and went unspoken; the driver is still in zone B one
\* fix later, the flag is clear again and nothing is spoken.
C23_Witness ==
    /\ tick.kind = "fix"
    /\ tick.skipped = "B"
    /\ tick.announced = "none"
    /\ tick.zoneId = "B"
    /\ currentSlowdownRef = "B"
    /\ ~tick.spoke
    /\ slowdownAlertUntil = 0

\* C24: once no branch load is in flight, the zone list used for resolution
\* is the one loaded for the branch of the most recently received snapshot of
\* the driver's document, and empty when that snapshot names no branch.
C24_ZonesFollowBranch ==
    branchLoads = <<>> => slowdownsRef = loadBranchSlowdowns(Branches(docBranchId))

\* C25: once a shift has ended or was cancelled (the driver's status is not
\* Delivering) and no run of the background task is in flight, the durable
\* store holds neither a shift-metrics snapshot nor an active-shift flag.
C25_SnapshotCleared ==
    (docStatus # "Delivering" /\ bgRun = <<>>) => (savedMetrics = <<>> /\ savedState = <<>>)

\* C29: during an active shift the totalDistance and the length of the
\* reading history stored in the durable snapshot never decrease from one
\* write to the next.
C29_NoLostUpdate ==
    [][ ( /\ docStatus = "Delivering"
          /\ docStatus' = "Delivering"
          /\ savedMetrics # <<>>
          /\ savedMetrics' # <<>> )
        => /\ savedMetrics'[1].totalDistance >= savedMetrics[1].totalDistance
           /\ Len(savedMetrics'[1].speedReadings) >= Len(savedMetrics[1].speedReadings) ]_vars

\* C27: at every moment at most one position subscription created by
\* startLocationWatch is live, and the subscription reference is set exactly
\* when one is.
C27_SingleSubscription ==
    /\ liveSubscriptions <= 1
    /\ locationSubRef <=> liveSubscriptions = 1

\* C28: while a driver is logged in, the metrics accumulator is active only
\* if the durable store holds an active shift of that driver; otherwise it is
\* inactive and carries no shift start time, reading history or last location.
C28_NoCrossDriverLeak ==
    ( /\ currentUserIdRef # NoUser
      /\ ~( /\ savedState # <<>>
            /\ savedState[1].isActive
            /\ savedState[1].uid = currentUserIdRef ) )
    => /\ ~isTrackingMetricsRef
       /\ shiftStartTimeRef = 0
       /\ speedReadingsRef = <<>>
       /\ lastLocationRef = Null

\* C26: the detector evaluates fixes in their arrival order: the fix it
\* evaluates never arrived before the fix it evaluated last.
C26_ArrivalOrder ==
    [][(tick.kind = "fix" /\ tick'.kind = "fix") => tick'.at >= tick.at]_vars

\* C30: while the status stays Delivering and every fix overspeeds in the same
\* zone, a violation is eventually emitted and after each emission another
\* one is: whatever the number of emissions so far, with LiveBudget of fixes
\* still to come the number eventually grows.
C30_EventuallyRepeated ==
    \A n \in 0..MaxLiveEmissions :
        (Len(emissions) = n /\ now <= StartTime + LiveHorizon - LiveBudget)
            ~> (Len(emissions) > n)

C30_Witness ==
    /\ Len(emissions) >= 2
    /\ tick.kind = "fix"
    /\ tick.outcome = "emit"
    /\ tick.zoneKey = "B"
    /\ \A i \in 1..Len(emissions) : emissions[i].zoneKey = "B"

====
